---- MODULE Spec2Model ----
(***************************************************************************)
(* A model of the windsurf-hooker policy gateway: short-lived hook         *)
(* processes that read one JSON payload on standard input, consult the     *)
(* policy document and the on-disk session files, and answer with an exit  *)
(* code.  The shared state is the files under /tmp and the policy files.   *)
(*                                                                         *)
(* Specifications:                                                         *)
(*   Spec            non-overlapping invocations of the session state hook *)
(*   SpecPlan        non-overlapping invocations of the plan hook          *)
(*   SpecSessionRace overlapping invocations of the session state hook     *)
(*   SpecPlanRace    overlapping invocations of the plan hook              *)
(*   SpecHooks       the stateless hooks applied to one payload and policy *)
(*   SpecPostWrite   the post_write hooks applied to one payload and tree  *)
(*   SpecGateway     non-overlapping invocations of the four /tmp-file     *)
(*                   hooks: session, plan, reasoning detector, write_file  *)
(*   SpecSessionFault the session state hook when its state file write     *)
(*                   can fail                                              *)
(*   SpecChain       allowlist, primary gate and session state hook run    *)
(*                   one after another on each tool call                   *)
(***************************************************************************)
EXTENDS Integers, Sequences, FiniteSets, TLC

VARIABLES
    stateFile,        \* content of /tmp/windsurf_session_state
    sessionAudit,     \* lines of /tmp/windsurf_session_audit.log
    planHashFile,     \* content of /tmp/windsurf_plan_hash
    planContextFile,  \* content of /tmp/windsurf_plan_context
    planAudit,        \* lines of /tmp/windsurf_plan_audit.log
    reasoningAudit,   \* lines of /tmp/windsurf_reasoning_audit.log
    writeAudit,       \* lines of /tmp/windsurf_write_file_audit.log
    repo,             \* what the post_write hooks find in the work tree
    policySys,        \* content of /etc/windsurf/policy/policy.json
    policyLocal,      \* content of <repo>/windsurf/policy/policy.json
    stdin,            \* the payload the last non-overlapping invocation read
    out,              \* what the last finished invocation printed and its exit code
    pc,               \* per process: the position of an overlapping invocation
    reg               \* per process: the locals of an overlapping invocation

vars == <<stateFile, sessionAudit, planHashFile, planContextFile, planAudit,
          reasoningAudit, writeAudit, repo, policySys, policyLocal, stdin, out,
          pc, reg>>

diskSession == <<stateFile, sessionAudit>>
diskPlan    == <<planHashFile, planContextFile, planAudit>>
diskPolicy  == <<policySys, policyLocal>>
diskAudit   == <<reasoningAudit, writeAudit>>
diskRepo    == <<repo>>

(***************************************************************************)
(* Bounds of the model.                                                    *)
(***************************************************************************)
MaxSessionAudit == 3   \* lines the session audit log may grow to
MaxPlanAudit    == 3   \* lines the plan audit log may grow to
MaxRaceAudit    == 2   \* lines either log may grow to when invocations overlap
NumProcs        == 2   \* overlapping hook processes
MaxReasoningAudit == 2 \* lines the reasoning audit log may grow to
MaxWriteAudit   == 2   \* lines the write_file audit log may grow to
MaxGatewayLines == 3   \* lines the four logs may hold together in SpecGateway

Procs == 1..NumProcs

(***************************************************************************)
(* Files and JSON values.                                                  *)
(***************************************************************************)
NoFile  == "<no file>"   \* os.path.exists(...) is False
Missing == "<missing>"   \* a key the JSON object does not carry
EmptyText == ""          \* a file that open(..., "w") has just truncated

\* JSON null; "x or y" for JSON strings: a missing key, null and "" are false.
Null == "<null>"
Falsy(x) == x \in {Missing, Null, ""}
\* s.strip() == "" for the strings of the payloads.
Blank(x) == x \in {"", "  "}
Strip(x) == IF Blank(x) THEN "" ELSE x

NoStep == -1             \* no "step_index" key
\* A JSON value under "plan": kind is "dict" (items: its keys and the JSON text
\* of their values, in the order of the payload), "str" (text: the string),
\* "other" (text: what Python's str() gives) or "missing" (no key, or null).
NoPlan == [kind |-> "missing", items |-> <<>>, text |-> ""]

NoScore == -1            \* no "confidence" in the output

\* A path string: whether it starts with "/", and its components.
EmptyPath == [abs |-> FALSE, parts |-> <<>>]

\* The text of an edit: its lines (str.splitlines) and the names of the
\* content checks whose regular expression finds a match in it.
EmptyContent == [lines |-> <<>>, hits |-> {}]
Text(lines) == [lines |-> lines, hits |-> {}]

\* A file of the work tree: whether it exists, and the names of the content
\* checks of the post_write hooks whose regular expression finds a match in it.
NoTestFile == [exists |-> FALSE, hits |-> {}]
TestFile(hits) == [exists |-> TRUE, hits |-> hits]

\* The work tree: tests/test_app.py, the languages a lint configuration file
\* exists for, and whether the mypy configuration test of the self-contained
\* hook comes out true.
EmptyRepo == [test |-> NoTestFile, lint |-> {}, mypy |-> FALSE]

\* A prompt: whether it is the empty string, the intent patterns (category
\* and position in the category's list) that re.search finds in it, whether it
\* holds a mutation verb as a word, the plan reference it carries, and which of
\* the words "proceed", the audit_ok token and the ship_ok token it contains.
NoPrompt ==
    [empty |-> TRUE, matches |-> {}, mutation |-> FALSE, plan_ref |-> Missing,
     words |-> {}]

\* A JSON value under "arguments": kind is "missing" (no key), "str" (hit:
\* whether one of the hook's patterns is found in the string), "dict" or "list"
\* (items: the keys, or the indexes, and their values) or "other" (a number, a
\* boolean or null).
NoArgs == [kind |-> "missing", hit |-> FALSE, items |-> <<>>]
JStr(hit) == [kind |-> "str", hit |-> hit, items |-> <<>>]
JDict(items) == [kind |-> "dict", hit |-> FALSE, items |-> items]
JList(items) == [kind |-> "list", hit |-> FALSE, items |-> items]
JOther == [kind |-> "other", hit |-> FALSE, items |-> <<>>]
Field(k, v) == [k |-> k, v |-> v]

\* A payload on standard input.  json is "invalid" (not JSON), "other" (JSON,
\* but not an object) or "object"; the other fields are the keys the hooks read.
EmptyObject ==
    [json |-> "object", tool_name |-> Missing, plan |-> NoPlan,
     action |-> Missing, step_index |-> NoStep, command |-> Missing,
     ti_tool_name |-> Missing, ti_name |-> Missing, ti_method |-> Missing,
     ti_command |-> Missing, ti_plan |-> Missing, ti_path |-> Missing,
     ti_content |-> Missing, ti_prompt |-> NoPrompt, ti_edits |-> <<>>,
     context |-> {}, arguments |-> NoArgs, path |-> EmptyPath,
     plan_hash |-> Missing, intent |-> Missing]
NotJson    == [EmptyObject EXCEPT !.json = "invalid"]
JsonNonObj == [EmptyObject EXCEPT !.json = "other"]

\* What an invocation leaves behind: the hook, its exit code and the JSON it printed.
NoOut ==
    [hook |-> "none", exit |-> -1, status |-> Missing, reason |-> Missing,
     state |-> Missing, new_state |-> Missing, tool |-> Missing,
     action |-> Missing, plan_hash |-> Missing, stderr |-> Missing,
     echo |-> Missing, intent |-> Missing, confidence |-> NoScore,
     mutation_requested |-> Missing, marker |-> Missing,
     expected_hash |-> Missing, current_hash |-> Missing, step |-> NoStep,
     evidence |-> <<>>, errors |-> <<>>]

\* The locals of an invocation that overlaps with others.
NoReg ==
    [tool |-> Missing, state |-> Missing, current |-> Missing,
     stored |-> Missing, step |-> NoStep]

\* An uncaught Python exception: traceback on stderr, exit status 1.
Traceback(h) == [NoOut EXCEPT !.hook = h, !.exit = 1, !.status = "traceback"]

\* audit_log / audit_log_error of the four hooks that keep a log: the file is
\* opened with mode "a" and the lines are written at its end.
audit_log_Rewrite(log, lines) == lines

audit_log(log, lines) == log \o lines

(***************************************************************************)
(* pre_session_state_enforcement.py                                        *)
(***************************************************************************)
\* get_session_state: "INIT" when the file does not exist, else its stripped
\* content.  The hook only ever writes "ACTIVE" and "CLOSED", which strip()
\* leaves alone; a truncated file reads as the empty string.
get_session_state(file) == IF file = NoFile THEN "INIT" ELSE file

\* The whitelist of main(), as written there.
allowed_tools_NoReadFile ==
    {"begin_session", "end_session",
     "list_plans", "read_plan", "lint_plan", "bootstrap_create_foundation_plan",
     "read_prompt", "write_file", "read_audit_log",
     "replay_execution", "verify_workspace_integrity",
     "generate_attestation_bundle", "verify_attestation_bundle",
     "export_attestation_bundle"}

allowed_tools ==
    {"begin_session", "end_session",
     "list_plans", "read_plan", "lint_plan", "bootstrap_create_foundation_plan",
     "read_prompt", "read_file", "write_file", "read_audit_log",
     "replay_execution", "verify_workspace_integrity",
     "generate_attestation_bundle", "verify_attestation_bundle",
     "export_attestation_bundle"}

\* input_data.get("tool_name", "unknown"); input_data is {} when stdin is not JSON.
SessionToolName(p) ==
    IF p.json = "invalid" \/ p.tool_name = Missing THEN "unknown" ELSE p.tool_name

SessionOut == [NoOut EXCEPT !.hook = "session"]

\* A line of the session audit log (the timestamp is left out).
SessionAuditLine(kind, tool) == [kind |-> kind, tool |-> tool]

\* main(), state INIT: only begin_session is allowed, and it persists ACTIVE.
\* Each branch gives the state to persist (Missing: no write), the audit lines
\* it appends and the output.
InitBranch_EndCloses(tool, state) ==
    IF tool = "end_session" THEN
        [write |-> "CLOSED", audit |-> <<>>,
         out   |-> [SessionOut EXCEPT !.exit = 0, !.status = "allowed",
                      !.new_state = "CLOSED"]]
    ELSE IF tool # "begin_session" THEN
        [write |-> Missing,
         audit |-> <<SessionAuditLine("init_rejected", tool)>>,
         out   |-> [SessionOut EXCEPT !.exit = 1, !.status = "rejected",
                      !.reason = "Session not initialized. Call begin_session first.",
                      !.state = state, !.tool = tool]]
    ELSE
        [write |-> "ACTIVE", audit |-> <<>>,
         out   |-> [SessionOut EXCEPT !.exit = 0, !.status = "allowed",
                      !.new_state = "ACTIVE"]]

InitBranch(tool, state) ==
    IF tool # "begin_session" THEN
        [write |-> Missing,
         audit |-> <<SessionAuditLine("init_rejected", tool)>>,
         out   |-> [SessionOut EXCEPT !.exit = 1, !.status = "rejected",
                      !.reason = "Session not initialized. Call begin_session first.",
                      !.state = state, !.tool = tool]]
    ELSE
        [write |-> "ACTIVE", audit |-> <<>>,
         out   |-> [SessionOut EXCEPT !.exit = 0, !.status = "allowed",
                      !.new_state = "ACTIVE"]]

\* main(), state ACTIVE: end_session persists CLOSED, the whitelist passes.
ActiveBranch(tool, state) ==
    IF tool = "end_session" THEN
        [write |-> "CLOSED", audit |-> <<>>,
         out   |-> [SessionOut EXCEPT !.exit = 0, !.status = "allowed",
                      !.new_state = "CLOSED"]]
    ELSE IF tool \in allowed_tools THEN
        [write |-> Missing, audit |-> <<>>,
         out   |-> [SessionOut EXCEPT !.exit = 0, !.status = "allowed"]]
    ELSE
        \* the reason printed carries the tool name
        [write |-> Missing,
         audit |-> <<SessionAuditLine("active_rejected", tool)>>,
         out   |-> [SessionOut EXCEPT !.exit = 1, !.status = "rejected",
                      !.reason = "Tool not in execution whitelist",
                      !.state = state, !.tool = tool]]

\* main(), state CLOSED: nothing is allowed.
ClosedBranch_Reopen(tool, state) ==
    IF tool = "begin_session" THEN
        [write |-> "ACTIVE", audit |-> <<>>,
         out   |-> [SessionOut EXCEPT !.exit = 0, !.status = "allowed",
                      !.new_state = "ACTIVE"]]
    ELSE
        [write |-> Missing,
         audit |-> <<SessionAuditLine("closed_rejected", tool)>>,
         out   |-> [SessionOut EXCEPT !.exit = 1, !.status = "rejected",
                      !.reason = "Session closed. No further operations allowed.",
                      !.state = state]]

ClosedBranch(tool, state) ==
    [write |-> Missing,
     audit |-> <<SessionAuditLine("closed_rejected", tool)>>,
     out   |-> [SessionOut EXCEPT !.exit = 1, !.status = "rejected",
                  !.reason = "Session closed. No further operations allowed.",
                  !.state = state]]

\* main(), any other content of the state file; the reason printed carries it.
UnknownBranch(tool, state) ==
    [write |-> Missing,
     audit |-> <<SessionAuditLine("unknown_state", state)>>,
     out   |-> [SessionOut EXCEPT !.exit = 1, !.status = "error",
                  !.reason = "Unknown session state", !.state = state]]

\* The state machine of main().
SessionDecision(tool, state) ==
    IF state = "INIT" THEN InitBranch(tool, state)
    ELSE IF state = "ACTIVE" THEN ActiveBranch(tool, state)
    ELSE IF state = "CLOSED" THEN ClosedBranch(tool, state)
    ELSE UnknownBranch(tool, state)

\* The tool names the payloads carry: whitelisted ones, the two transitions,
\* and two names outside the whitelist.
SessionTools ==
    {"begin_session", "end_session", "read_file", "write_file",
     "run_command", "mcp_atlas-gate-mcp_begin_session"}

SessionPayloads ==
    {[EmptyObject EXCEPT !.tool_name = t] : t \in SessionTools}
        \cup {EmptyObject, NotJson, JsonNonObj}

\* One whole invocation of the hook's main() on payload p.
SessionHook(p) ==
    IF p.json = "other" THEN
        \* input_data.get on a list or a number: AttributeError, nothing touched
        /\ out' = Traceback("session")
        /\ stdin' = p
        /\ UNCHANGED diskSession
    ELSE
        LET d == SessionDecision(SessionToolName(p), get_session_state(stateFile)) IN
        /\ Len(sessionAudit) + Len(d.audit) <= MaxSessionAudit
        /\ stateFile' = IF d.write = Missing THEN stateFile ELSE d.write
        /\ sessionAudit' = audit_log(sessionAudit, d.audit)
        /\ out' = d.out
        /\ stdin' = p

\* set_session_state under the outcomes the file system can give: the write
\* goes through; open(STATE_FILE, "w") raises and the file is left as it was;
\* the open truncates the file and the write or the close raises.  The except
\* clause swallows the exception either way.
WriteOutcomes == {"written", "open_failed", "write_failed"}

set_session_state(file, state, outcome) ==
    IF outcome = "written" THEN state
    ELSE IF outcome = "open_failed" THEN file
    ELSE EmptyText

\* The line audit_log_error appends from the except clause of
\* set_session_state.
PersistFailedAudit(state, outcome) ==
    IF outcome = "written" THEN <<>>
    ELSE <<SessionAuditLine("persist_failed", state)>>

\* One whole invocation of main() on payload p when set_session_state meets
\* the given outcome: the print and the exit code do not depend on it.
SessionHookFaulty(p, outcome) ==
    IF p.json = "other" THEN
        /\ out' = Traceback("session")
        /\ stdin' = p
        /\ UNCHANGED diskSession
    ELSE
        LET d     == SessionDecision(SessionToolName(p), get_session_state(stateFile))
            lines == IF d.write = Missing THEN d.audit
                     ELSE d.audit \o PersistFailedAudit(d.write, outcome)
        IN
        /\ Len(sessionAudit) + Len(lines) <= MaxSessionAudit
        /\ stateFile' = IF d.write = Missing THEN stateFile
                        ELSE set_session_state(stateFile, d.write, outcome)
        /\ sessionAudit' = audit_log(sessionAudit, lines)
        /\ out' = d.out
        /\ stdin' = p

(***************************************************************************)
(* pre_plan_immutability_enforcement.py                                    *)
(***************************************************************************)
\* The keys the plans of the payloads use, in Python's string order.
KeyOrder == <<"goal", "steps">>
KeyRank(k) == CHOOSE i \in 1..Len(KeyOrder) : KeyOrder[i] = k

\* sorted(items) by key, as json.dumps(..., sort_keys=True) orders them.
RECURSIVE SortItems(_)
SortItems(items) ==
    IF items = <<>> THEN <<>>
    ELSE LET least == CHOOSE i \in 1..Len(items) :
                        \A j \in 1..Len(items) : KeyRank(items[i].k) <= KeyRank(items[j].k)
             rest  == [j \in 1..(Len(items) - 1) |->
                         IF j < least THEN items[j] ELSE items[j + 1]]
         IN  <<items[least]>> \o SortItems(rest)

\* The text of json.dumps for the sorted items: {"k": v, "k": v}.
RECURSIVE JoinItems(_)
JoinItems(items) ==
    IF items = <<>> THEN ""
    ELSE "\"" \o items[1].k \o "\": " \o items[1].v
         \o (IF Len(items) > 1 THEN ", " ELSE "") \o JoinItems(Tail(items))

json_dumps_sorted(items) == "{" \o JoinItems(SortItems(items)) \o "}"

\* hashlib.sha256(text).hexdigest(): distinct texts get distinct digests.
sha256_hexdigest(text) == "sha256:" \o text

\* compute_plan_hash: a dict is dumped with sorted keys, a string is taken as
\* it is, anything else goes through str().
compute_plan_hash(plan) ==
    sha256_hexdigest(IF plan.kind = "dict" THEN json_dumps_sorted(plan.items)
                     ELSE plan.text)

\* Python's truth value of the plan: None, {} and "" are false.
PlanTruthy(plan) ==
    /\ plan.kind # "missing"
    /\ plan.kind = "dict" => plan.items # <<>>
    /\ plan.kind = "str" => plan.text # ""

\* get_stored_plan_hash: None (Missing) when the file does not exist, else its
\* stripped content; the hex digest written has no surrounding whitespace.
get_stored_plan_hash(file) == IF file = NoFile THEN Missing ELSE file

\* "if stored_hash": None and the empty string are false.
StoredTruthy(stored) == stored # Missing /\ stored # ""

PlanOut == [NoOut EXCEPT !.hook = "plan"]

\* Lines of the plan audit log (the timestamp is left out).
OverwriteLine(old, new) == [kind |-> "overwrite", a |-> old, b |-> new, step |-> NoStep]
NoHashLine == [kind |-> "no_stored_hash", a |-> Missing, b |-> Missing, step |-> NoStep]
MismatchLine(step, expected, got) ==
    [kind |-> "mismatch", a |-> expected, b |-> got, step |-> step]

\* main(): the fields read from the payload, with their defaults.
PlanOf(p)   == IF p.json = "invalid" THEN NoPlan ELSE p.plan
StepOf(p)   == IF p.json = "invalid" \/ p.step_index = NoStep THEN 0 ELSE p.step_index
ActionOf(p) == IF p.json = "invalid" \/ p.action = Missing THEN "verify" ELSE p.action

\* main(), action init: the audit lines written before the hash is stored.
PlanInitAudit_Silent(stored, current) == <<>>

PlanInitAudit(stored, current) ==
    IF StoredTruthy(stored) THEN <<OverwriteLine(stored, current)>> ELSE <<>>

PlanInitOut(current, step) ==
    [PlanOut EXCEPT !.exit = 0, !.status = "allowed",
                    !.action = "plan_hash_initialized",
                    !.plan_hash = current, !.step = step]

\* store_plan_hash: what the context file holds (stored_at is left out).
PlanContext(hash) == "{\"hash\": \"" \o hash \o "\"}"

\* main(), action verify: the comparison with the stored hash.
PlanHashDiffers_Never(current, stored) == FALSE

PlanHashDiffers(current, stored) == current # stored

\* main(), action verify: audit lines and output for a stored hash.
PlanVerify_Lockout(current, stored, step) ==
    IF planAudit # <<>> THEN
        [audit |-> <<>>,
         out   |-> [PlanOut EXCEPT !.exit = 1, !.status = "rejected",
                      !.reason = "Earlier verification failed", !.step = step]]
    ELSE IF ~StoredTruthy(stored) THEN
        [audit |-> <<NoHashLine>>,
         out   |-> [PlanOut EXCEPT !.exit = 1, !.status = "rejected",
                      !.reason = "Plan not initialized. Call with action=init first.",
                      !.step = step]]
    ELSE
        [audit |-> <<>>,
         out   |-> [PlanOut EXCEPT !.exit = 0, !.status = "allowed",
                      !.plan_hash = current, !.step = step]]

PlanVerify(current, stored, step) ==
    IF ~StoredTruthy(stored) THEN
        [audit |-> <<NoHashLine>>,
         out   |-> [PlanOut EXCEPT !.exit = 1, !.status = "rejected",
                      !.reason = "Plan not initialized. Call with action=init first.",
                      !.step = step]]
    ELSE IF PlanHashDiffers(current, stored) THEN
        [audit |-> <<MismatchLine(step, stored, current)>>,
         out   |-> [PlanOut EXCEPT !.exit = 1, !.status = "rejected",
                      !.reason = "Plan has been modified since execution started",
                      !.expected_hash = stored, !.current_hash = current,
                      !.step = step]]
    ELSE
        [audit |-> <<>>,
         out   |-> [PlanOut EXCEPT !.exit = 0, !.status = "allowed",
                      !.plan_hash = current, !.step = step]]

PlanNoPlanOut ==
    [PlanOut EXCEPT !.exit = 1, !.status = "error", !.reason = "No plan provided"]
PlanUnknownActionOut(action) ==
    [PlanOut EXCEPT !.exit = 1, !.status = "error", !.reason = "Unknown action",
                    !.action = action]

\* The plans the payloads carry.  PlanA and PlanARev are the same object with
\* its keys in two orders; PlanAStr is the string json.dumps gives for it.
PlanA    == [kind |-> "dict", text |-> "",
             items |-> <<[k |-> "steps", v |-> "[1]"], [k |-> "goal", v |-> "\"x\""]>>]
PlanARev == [kind |-> "dict", text |-> "",
             items |-> <<[k |-> "goal", v |-> "\"x\""], [k |-> "steps", v |-> "[1]"]>>]
PlanB    == [kind |-> "dict", text |-> "", items |-> <<[k |-> "steps", v |-> "[2]"]>>]
PlanAStr == [kind |-> "str", items |-> <<>>,
             text |-> "{\"goal\": \"x\", \"steps\": [1]}"]
EmptyDictPlan == [kind |-> "dict", text |-> "", items |-> <<>>]

Plans == {PlanA, PlanARev, PlanB, PlanAStr, EmptyDictPlan, NoPlan}
PlanActions == {"init", "verify", "reset", Missing}
StepIndexes == {NoStep, 1}

PlanPayloads ==
    {[EmptyObject EXCEPT !.plan = pl, !.action = a, !.step_index = st] :
        pl \in Plans, a \in PlanActions, st \in StepIndexes}
        \cup {NotJson, JsonNonObj}

\* One whole invocation of the hook's main() on payload p.
PlanHook(p) ==
    /\ stdin' = p
    /\ IF p.json = "other" THEN
           \* input_data.get on a list or a number: AttributeError
           /\ out' = Traceback("plan")
           /\ UNCHANGED diskPlan
       ELSE IF ~PlanTruthy(PlanOf(p)) THEN
           /\ out' = PlanNoPlanOut
           /\ UNCHANGED diskPlan
       ELSE
           LET current == compute_plan_hash(PlanOf(p))
               stored  == get_stored_plan_hash(planHashFile)
           IN  IF ActionOf(p) = "init" THEN
                   LET lines == PlanInitAudit(stored, current) IN
                   /\ Len(planAudit) + Len(lines) <= MaxPlanAudit
                   /\ planAudit' = audit_log(planAudit, lines)
                   /\ planHashFile' = current
                   /\ planContextFile' = PlanContext(current)
                   /\ out' = PlanInitOut(current, StepOf(p))
               ELSE IF ActionOf(p) = "verify" THEN
                   LET v == PlanVerify(current, stored, StepOf(p)) IN
                   /\ Len(planAudit) + Len(v.audit) <= MaxPlanAudit
                   /\ planAudit' = audit_log(planAudit, v.audit)
                   /\ out' = v.out
                   /\ UNCHANGED <<planHashFile, planContextFile>>
               ELSE
                   /\ out' = PlanUnknownActionOut(ActionOf(p))
                   /\ UNCHANGED diskPlan

(***************************************************************************)
(* pre_no_reasoning_in_executor.py                                         *)
(***************************************************************************)
\* scan_for_reasoning: whether a compiled pattern is found in the value, which
\* is never the case for a value that is not a string.
scan_for_reasoning(value) == value.kind = "str" /\ value.hit

\* scan_arguments, the dict branch: the keys of the top-level values that are
\* strings holding a pattern, in the order of the dict.
RECURSIVE DictEvidence(_)
DictEvidence(items) ==
    IF items = <<>> THEN <<>>
    ELSE (IF scan_for_reasoning(items[1].v) THEN <<items[1].k>> ELSE <<>>)
         \o DictEvidence(Tail(items))

\* scan_arguments: a dict is scanned value by value, a string as a whole, and
\* anything else gives no evidence.
scan_arguments(arguments) ==
    IF arguments.kind = "dict" THEN DictEvidence(arguments.items)
    ELSE IF arguments.kind = "str" THEN
        (IF scan_for_reasoning(arguments) THEN <<"argument">> ELSE <<>>)
    ELSE <<>>

\* A line of the reasoning audit log (the timestamp is left out).
ReasoningAuditLine(tool, evidence) ==
    [kind |-> "reasoning_detected", tool |-> tool, fields |-> evidence]

ReasoningOut == [NoOut EXCEPT !.hook = "reasoning"]

\* input_data.get("arguments", {}); input_data is {} when stdin is not JSON.
ArgumentsOf(p) == IF p.json = "invalid" THEN NoArgs ELSE p.arguments

\* One whole invocation of the hook's main() on payload p: a rejection is
\* logged, printed with its evidence and ends with exit status 1.
ReasoningHook(p) ==
    /\ stdin' = p
    /\ IF p.json = "other" THEN
           \* input_data.get on a list or a number: AttributeError
           /\ out' = Traceback("reasoning")
           /\ UNCHANGED reasoningAudit
       ELSE
           LET tool == SessionToolName(p)
               evidence == scan_arguments(ArgumentsOf(p))
           IN  IF evidence # <<>> THEN
                   /\ Len(reasoningAudit) < MaxReasoningAudit
                   /\ reasoningAudit' =
                          audit_log(reasoningAudit, <<ReasoningAuditLine(tool, evidence)>>)
                   /\ out' = [ReasoningOut EXCEPT !.exit = 1, !.status = "rejected",
                                 !.reason = "Tool call contains reasoning or narrative text. Windsurf must only execute, not reason.",
                                 !.tool = tool, !.evidence = evidence]
               ELSE
                   /\ out' = [ReasoningOut EXCEPT !.exit = 0, !.status = "allowed",
                                 !.tool = tool]
                   /\ UNCHANGED reasoningAudit

\* The arguments the payloads carry: none, flat dicts with and without a
\* pattern, a pattern one and two levels down, a pattern in a list, and
\* arguments that are a string, a list or a number.
ReasoningArguments ==
    {NoArgs,
     JDict(<<>>),
     JDict(<<Field("path", JStr(FALSE))>>),
     JDict(<<Field("path", JStr(FALSE)), Field("why", JStr(TRUE))>>),
     JDict(<<Field("why", JStr(TRUE)), Field("note", JStr(TRUE))>>),
     JDict(<<Field("count", JOther)>>),
     JDict(<<Field("options", JDict(<<Field("why", JStr(TRUE))>>))>>),
     JDict(<<Field("options", JDict(<<Field("why", JStr(FALSE))>>))>>),
     JDict(<<Field("edits", JList(<<Field("0", JDict(<<Field("why", JStr(TRUE))>>))>>))>>),
     JDict(<<Field("notes", JList(<<Field("0", JStr(TRUE))>>))>>),
     JStr(TRUE), JStr(FALSE), JList(<<Field("0", JStr(TRUE))>>), JOther}

(***************************************************************************)
(* pre_write_file_guardrails.py                                            *)
(***************************************************************************)
\* os.getcwd() when the hook starts: the repository root.
WORKSPACE_ROOT == <<"home", "dev", "repo">>

\* ".." in path or "~" in path, for the names the payloads use.
HoldsTraversal(name) == name \in {"..", "~", "~backup"}

\* os.path.abspath: the path joined to the working directory and normalised;
\* the paths that reach it hold no "..", "." is dropped.
AbsPathOf(path) ==
    (IF path.abs THEN <<>> ELSE WORKSPACE_ROOT)
        \o SelectSeq(path.parts, LAMBDA name : name # ".")

\* pathlib's relative_to: the root's components begin the path's.
RelativeTo(abs_path, root) ==
    /\ Len(abs_path) >= Len(root)
    /\ SubSeq(abs_path, 1, Len(root)) = root

\* The entries of PROTECTED_PATHS that an absolute path can begin with: every
\* entry begins with "/", so only its first component decides here.
GuardProtectedRoots == {"etc", "usr", ".local", "root", ".ssh", ".aws"}

\* validate_path: the reason the path is refused for, or Missing.
validate_path(path) ==
    LET abs_path == AbsPathOf(path) IN
    IF \E i \in 1..Len(path.parts) : HoldsTraversal(path.parts[i])
        THEN "Path validation failed: Path traversal detected"
    ELSE IF ~RelativeTo(abs_path, WORKSPACE_ROOT)
        THEN "Path validation failed: Path outside workspace root"
    ELSE IF abs_path # <<>> /\ abs_path[1] \in GuardProtectedRoots
        THEN "Path validation failed: Protected path"
    ELSE Missing

\* "if not path": None and the empty string are false.
PathGiven(path) == path # EmptyPath

\* input_data.get("intent", "").strip()
IntentOf(p) ==
    IF p.json = "invalid" \/ p.intent = Missing THEN "" ELSE Strip(p.intent)

\* Validations 3 and 4: the plan hash must be given, a hash must be stored,
\* and the two must be equal.
PlanHashErrors_NoCompare(provided, stored) ==
    IF Falsy(provided) THEN <<"plan_hash is required">>
    ELSE IF ~StoredTruthy(stored)
        THEN <<"No plan hash in session. Initialize plan first.">>
    ELSE <<>>

PlanHashErrors(provided, stored) ==
    IF Falsy(provided) THEN <<"plan_hash is required">>
    ELSE IF ~StoredTruthy(stored)
        THEN <<"No plan hash in session. Initialize plan first.">>
    ELSE IF provided # stored THEN <<"plan_hash mismatch">>
    ELSE <<>>

\* The errors main() collects, in its order.
WriteErrors(p, stored) ==
    LET path == IF p.json = "invalid" THEN EmptyPath ELSE p.path
        provided == IF p.json = "invalid" THEN Missing ELSE p.plan_hash
    IN  (IF ~PathGiven(path) THEN <<"path is required">> ELSE <<>>)
        \o (IF IntentOf(p) = "" THEN <<"intent is required and must be non-empty">>
            ELSE <<>>)
        \o PlanHashErrors(provided, stored)
        \o (IF PathGiven(path) /\ validate_path(path) # Missing
            THEN <<validate_path(path)>> ELSE <<>>)

\* A line of the write_file audit log (the timestamp is left out).
WriteAuditLine(kind, path, errors) == [kind |-> kind, path |-> path, errors |-> errors]

WriteOut == [NoOut EXCEPT !.hook = "write_file"]

\* One whole invocation of the hook's main() on payload p: both outcomes are
\* logged; a rejection ends with exit status 1.
WriteFileHook(p) ==
    /\ stdin' = p
    /\ IF p.json = "other" \/ (p.json = "object" /\ p.intent = Null) THEN
           \* input_data.get on a list, or None.strip(): AttributeError
           /\ out' = Traceback("write_file")
           /\ UNCHANGED writeAudit
       ELSE
           LET errors == WriteErrors(p, get_stored_plan_hash(planHashFile))
               path == IF p.json = "invalid" THEN EmptyPath ELSE p.path
           IN  /\ Len(writeAudit) < MaxWriteAudit
               /\ IF errors # <<>> THEN
                      /\ writeAudit' =
                             audit_log(writeAudit, <<WriteAuditLine("REJECTED", path, errors)>>)
                      /\ out' = [WriteOut EXCEPT !.exit = 1, !.status = "rejected",
                                    !.errors = errors]
                  ELSE
                      /\ writeAudit' =
                             audit_log(writeAudit, <<WriteAuditLine("ALLOWED", path, <<>>)>>)
                      /\ out' = [WriteOut EXCEPT !.exit = 0, !.status = "allowed"]

(***************************************************************************)
(* The policy document.                                                    *)
(***************************************************************************)
\* A policy file: kind is "none" (no such file), "empty" (nothing but white
\* space), "malformed" (not JSON) or "object", with the keys the hooks read.
NoPolicyFile ==
    [kind |-> "none", execution_profile |-> Missing, mcp_tool_allowlist |-> {},
     block_commands_regex |-> {}, tokens |-> {}, prohibited_patterns |-> {}]
EmptyPolicyFile     == [NoPolicyFile EXCEPT !.kind = "empty"]
MalformedPolicyFile == [NoPolicyFile EXCEPT !.kind = "malformed"]
PolicyObject(profile, allowlist) ==
    [NoPolicyFile EXCEPT !.kind = "object", !.execution_profile = profile,
                         !.mcp_tool_allowlist = allowlist]

\* resolve_policy_path: the deployed path when it exists, else the repo-local one.
resolve_policy_path(sys, local) == IF sys.kind # "none" THEN sys ELSE local

\* The policy a hook works with: crash is an uncaught json.JSONDecodeError.
EmptyPolicy ==
    [crash |-> FALSE, execution_profile |-> Missing, mcp_tool_allowlist |-> {},
     prohibited_patterns |-> {}]

\* text = POLICY_PATH.read_text().strip() if POLICY_PATH.exists() else ""
\* policy = json.loads(text) if text else {}
LoadPolicyText(file) ==
    IF file.kind \in {"none", "empty"} THEN EmptyPolicy
    ELSE IF file.kind = "malformed" THEN [EmptyPolicy EXCEPT !.crash = TRUE]
    ELSE [EmptyPolicy EXCEPT !.execution_profile = file.execution_profile,
                             !.mcp_tool_allowlist = file.mcp_tool_allowlist,
                             !.prohibited_patterns = file.prohibited_patterns]

\* policy.get("execution_profile", "standard")
ProfileOf(policy) ==
    IF policy.execution_profile = Missing THEN "standard"
    ELSE policy.execution_profile

\* block(msg) of the two pre_run_command hooks: print(msg, file=sys.stderr),
\* sys.exit(2).  The text "BLOCKED: " is part of the caller's message.
BlockText_NoLine(h, text) == [NoOut EXCEPT !.hook = h, !.exit = 2, !.stderr = ""]
BlockText(h, text) == [NoOut EXCEPT !.hook = h, !.exit = 2, !.stderr = text]
\* block(msg) of the pre_mcp_tool_use hooks: "BLOCKED: <msg>" on stderr, exit
\* status 2.
Block(h, msg) == BlockText(h, "BLOCKED: " \o msg)
\* sys.exit(0) with nothing printed.
Allow(h) == [NoOut EXCEPT !.hook = h, !.exit = 0]

\* tool.get("tool_name") or tool.get("name") or tool.get("method") or ""
ToolNameOf(p) ==
    IF ~Falsy(p.ti_tool_name) THEN p.ti_tool_name
    ELSE IF ~Falsy(p.ti_name) THEN p.ti_name
    ELSE IF ~Falsy(p.ti_method) THEN p.ti_method
    ELSE ""

(***************************************************************************)
(* pre_mcp_tool_use_allowlist.py                                           *)
(***************************************************************************)
\* load_policy: {} when the file is missing or is not JSON.
load_policy(file) ==
    IF file.kind = "object"
    THEN [EmptyPolicy EXCEPT !.execution_profile = file.execution_profile,
                             !.mcp_tool_allowlist = file.mcp_tool_allowlist,
                             !.prohibited_patterns = file.prohibited_patterns]
    ELSE EmptyPolicy

McpAllowlist_NoPromptCheck(p, sys, local) ==
    IF p.json = "invalid" THEN Block("mcp_allowlist", "Invalid JSON input")
    ELSE IF p.json = "other" THEN Traceback("mcp_allowlist")
    ELSE
        LET policy == load_policy(resolve_policy_path(sys, local))
            allowed == policy.mcp_tool_allowlist
            tool_name == Strip(ToolNameOf(p))
            ctx == p.context
        IN  IF tool_name = "" THEN
                Block("mcp_allowlist", "No tool specified in payload")
            ELSE IF allowed # {} /\ tool_name \notin allowed THEN
                Block("mcp_allowlist", "Tool is not permitted")
            ELSE IF tool_name = "mcp_atlas-gate-mcp_begin_session" THEN
                Allow("mcp_allowlist")
            ELSE IF "ATLAS_SESSION_OK" \notin ctx THEN
                Block("mcp_allowlist", "ATLAS session not initialized")
            ELSE IF tool_name = "mcp_atlas-gate-mcp_write_file"
                    /\ (Falsy(p.ti_plan) \/ Blank(p.ti_plan)) THEN
                Block("mcp_allowlist", "write_file requires plan hash (BLAKE3)")
            ELSE Allow("mcp_allowlist")

McpAllowlist(p, sys, local) ==
    IF p.json = "invalid" THEN Block("mcp_allowlist", "Invalid JSON input")
    ELSE IF p.json = "other" THEN Traceback("mcp_allowlist")
    ELSE
        LET policy == load_policy(resolve_policy_path(sys, local))
            allowed == policy.mcp_tool_allowlist
            tool_name == Strip(ToolNameOf(p))
            ctx == p.context
        IN  IF tool_name = "" THEN
                Block("mcp_allowlist", "No tool specified in payload")
            ELSE IF allowed # {} /\ tool_name \notin allowed THEN
                Block("mcp_allowlist", "Tool is not permitted")
            ELSE IF tool_name = "mcp_atlas-gate-mcp_begin_session" THEN
                Allow("mcp_allowlist")
            ELSE IF "ATLAS_SESSION_OK" \notin ctx THEN
                Block("mcp_allowlist", "ATLAS session not initialized")
            ELSE IF tool_name = "mcp_atlas-gate-mcp_write_file"
                    /\ "ATLAS_PROMPT_UNLOCKED" \notin ctx THEN
                Block("mcp_allowlist", "Prompt not read before write")
            ELSE IF tool_name = "mcp_atlas-gate-mcp_write_file"
                    /\ (Falsy(p.ti_plan) \/ Blank(p.ti_plan)) THEN
                Block("mcp_allowlist", "write_file requires plan hash (BLAKE3)")
            ELSE Allow("mcp_allowlist")

(***************************************************************************)
(* pre_mcp_tool_use_atlas_gate.py                                          *)
(***************************************************************************)
\* ATLAS_GATE_OPS: the required fields of each operation.
AtlasRequired(op) ==
    IF op = "atlas_gate.write" THEN <<"path", "content">>
    ELSE IF op = "atlas_gate.exec" THEN <<"command">>
    ELSE <<"path">>
ATLAS_GATE_OPS ==
    {"atlas_gate.read", "atlas_gate.write", "atlas_gate.exec", "atlas_gate.stat"}

\* tool.get(field) for the fields the gate looks at.
ToolField(p, field) ==
    IF field = "path" THEN p.ti_path
    ELSE IF field = "content" THEN p.ti_content
    ELSE p.ti_command

\* tool_name.startswith("atlas_gate."), for the tool names of the payloads.
HasAtlasPrefix(name) ==
    name \in ATLAS_GATE_OPS \cup {"atlas_gate.delete"}

\* validate_atlas_gate_payload: the message it blocks with, or Missing.
validate_atlas_gate_payload(tool_name, p) ==
    LET req == AtlasRequired(tool_name) IN
    IF tool_name \notin ATLAS_GATE_OPS THEN "Unknown ATLAS-GATE operation"
    ELSE IF \E i \in 1..Len(req) : ToolField(p, req[i]) = Missing
        THEN "Malformed ATLAS-GATE payload"
    ELSE IF \E i \in 1..Len(req) :
                ToolField(p, req[i]) = Null \/ Blank(ToolField(p, req[i]))
        THEN "ATLAS-GATE field is empty or None"
    ELSE Missing

AtlasGate(p, sys) ==
    IF p.json = "invalid" THEN Block("atlas_gate", "Invalid JSON input")
    ELSE
        \* POLICY_PATH is the deployed path, with no fallback
        LET policy == LoadPolicyText(sys)
            tool_name == ToolNameOf(p)
        IN  IF policy.crash THEN Traceback("atlas_gate")
            ELSE IF ProfileOf(policy) = "locked" THEN
                Block("atlas_gate", "System is in LOCKED mode (panic button activated).")
            ELSE IF p.json = "other" THEN Traceback("atlas_gate")
            ELSE IF tool_name = "" THEN
                Block("atlas_gate", "No tool specified in payload")
            ELSE IF ~HasAtlasPrefix(tool_name) THEN
                Block("atlas_gate", "Only ATLAS-GATE tools are permitted")
            ELSE IF validate_atlas_gate_payload(tool_name, p) # Missing THEN
                Block("atlas_gate", validate_atlas_gate_payload(tool_name, p))
            ELSE
                \* the later checks of command and path repeat what the
                \* validation has established for string fields
                Allow("atlas_gate")

(***************************************************************************)
(* pre_run_command_kill_switch.py                                          *)
(***************************************************************************)
KillSwitch_NeedsCommand(p, sys) ==
    IF p.json = "invalid" THEN BlockText("kill_switch", "BLOCKED: Invalid JSON input")
    ELSE
        LET policy == LoadPolicyText(sys) IN
        IF policy.crash THEN Traceback("kill_switch")
        ELSE IF ProfileOf(policy) = "locked" THEN
            BlockText("kill_switch", "BLOCKED: System is in LOCKED mode (panic button activated).")
        ELSE IF ProfileOf(policy) = "execution_only" THEN
            IF p.json = "other" THEN Traceback("kill_switch")
            ELSE IF Falsy(p.ti_command) THEN Allow("kill_switch")
            ELSE [BlockText("kill_switch", "BLOCKED: Direct command execution is disabled.")
                    EXCEPT !.echo = Strip(p.ti_command)]
        ELSE Allow("kill_switch")

KillSwitch(p, sys) ==
    IF p.json = "invalid" THEN BlockText("kill_switch", "BLOCKED: Invalid JSON input")
    ELSE
        \* POLICY_PATH is the deployed path, with no fallback
        LET policy == LoadPolicyText(sys) IN
        IF policy.crash THEN Traceback("kill_switch")
        ELSE IF ProfileOf(policy) = "locked" THEN
            BlockText("kill_switch", "BLOCKED: System is in LOCKED mode (panic button activated).")
        ELSE IF ProfileOf(policy) = "execution_only" THEN
            IF p.json = "other" THEN Traceback("kill_switch")
            ELSE [BlockText("kill_switch", "BLOCKED: Direct command execution is disabled.")
                    EXCEPT !.echo = IF Falsy(p.ti_command) THEN ""
                                    ELSE Strip(p.ti_command)]
        ELSE Allow("kill_switch")

(***************************************************************************)
(* pre_run_command_blocklist.py                                            *)
(***************************************************************************)
Blocklist(p, sys, local) ==
    IF p.json = "invalid" THEN BlockText("blocklist", "BLOCKED: Invalid JSON input")
    ELSE
        LET policy == LoadPolicyText(resolve_policy_path(sys, local)) IN
        IF policy.crash \/ p.json = "other" THEN Traceback("blocklist")
        \* payload.get("command", ""): the top-level key, not tool_info's
        ELSE IF p.command \notin {Missing, Null, ""} THEN
            [BlockText("blocklist", "BLOCKED: Shell command execution disabled")
                EXCEPT !.echo = p.command]
        \* main() returns and the interpreter exits with status 0
        ELSE Allow("blocklist")

(***************************************************************************)
(* pre_filesystem_write.py                                                 *)
(***************************************************************************)
MAX_NEW_FILES == 50

\* Path.cwd(): the directory the hook runs in, the repository root.
RepoRoot == <<"home", "dev", "repo">>

\* Path(path_str).resolve(): relative paths start at the working directory,
\* ".." drops the last component (the root has none to drop), "." is skipped.
RECURSIVE Normalize(_, _)
Normalize(base, parts) ==
    IF parts = <<>> THEN base
    ELSE IF Head(parts) = ".." THEN
        Normalize(IF base = <<>> THEN base ELSE SubSeq(base, 1, Len(base) - 1),
                  Tail(parts))
    ELSE IF Head(parts) = "." THEN Normalize(base, Tail(parts))
    ELSE Normalize(Append(base, Head(parts)), Tail(parts))

Resolve(path) == Normalize(IF path.abs THEN <<>> ELSE RepoRoot, path.parts)

\* name.startswith(prefix) for the directory names of the payloads.
NameStartsWith(name, prefix) ==
    name = prefix \/ (name = "repo-old" /\ prefix = "repo")

\* str(p).startswith(str(repo_root)): a comparison of strings, so a sibling
\* directory whose name continues the root's name passes it too.
StrStartsWith(resolved, root) ==
    /\ Len(resolved) >= Len(root)
    /\ \A i \in 1..(Len(root) - 1) : resolved[i] = root[i]
    /\ NameStartsWith(resolved[Len(root)], root[Len(root)])

is_outside_repo(path) == ~StrStartsWith(Resolve(path), RepoRoot)

\* Path(path).suffix.lower(), for the file names of the payloads.
Suffix(name) ==
    IF name \in {"tool.exe", "TOOL.EXE"} THEN ".exe"
    ELSE IF name = "lib.jar" THEN ".jar"
    ELSE IF name \in {"app.py", "new.py", "test_app.py", "inspector.py", "out.py",
                      "kill_switch.py", "mock_data.py"} THEN ".py"
    ELSE IF name = "policy.json" THEN ".json"
    ELSE IF name = "README.md" THEN ".md"
    ELSE IF name = "config.json" THEN ".json"
    ELSE IF name = "main.go" THEN ".go"
    ELSE ""

SUSPICIOUS_EXTENSIONS ==
    {".exe", ".dll", ".so", ".bin", ".pyc", ".o", ".a", ".iso", ".dmg"}

\* is_binary_file: a suspicious suffix, or a path ending in .jar, .whl,
\* .tar.gz, .zip or .rar.
is_binary_file(path) ==
    /\ path.parts # <<>>
    /\ LET sfx == Suffix(path.parts[Len(path.parts)]) IN
          sfx \in SUSPICIOUS_EXTENSIONS \/ sfx \in {".jar", ".whl", ".zip", ".rar"}

\* re.search(pattern, name, re.IGNORECASE) for some SUSPICIOUS_PATTERNS entry:
\* "builder" holds "build", ".github" holds ".git".
SuspiciousName(name) ==
    name \in {"node_modules", ".git", ".github", ".env", "__pycache__", "dist",
              "build", "builder", ".cache", ".tmp", "venv"}

is_suspicious_path(path) ==
    \E i \in 1..Len(path.parts) : SuspiciousName(path.parts[i])

\* Path(path).exists(): the files of the work tree.
ExistingFiles == {RepoRoot \o <<"src", "app.py">>, <<"etc", "passwd">>}
PathExists(path) == Resolve(path) \in ExistingFiles

\* The edits with a non-empty path, in order.
RECURSIVE WithPath(_)
WithPath(edits) ==
    IF edits = <<>> THEN <<>>
    ELSE (IF Head(edits).path = EmptyPath THEN <<>> ELSE <<Head(edits)>>)
         \o WithPath(Tail(edits))

IsNewFile(path) == ~PathExists(path)

\* analyze_filesystem_writes(edits)["fs_write_safe"]
fs_write_safe(edits) ==
    LET es == WithPath(edits) IN
    /\ Cardinality({i \in 1..Len(es) : is_outside_repo(es[i].path)}) = 0
    /\ Cardinality({i \in 1..Len(es) : is_binary_file(es[i].path)}) = 0
    /\ Cardinality({i \in 1..Len(es) : is_suspicious_path(es[i].path)}) = 0
    /\ Cardinality({i \in 1..Len(es) : IsNewFile(es[i].path)}) <= MAX_NEW_FILES

FilesystemWrite(p) ==
    IF p.json = "invalid" THEN
        \* prints {"fs_write_safe": true, "warnings": []} and exits 0
        [Allow("fs_write") EXCEPT !.status = "fs_write_safe"]
    ELSE IF p.json = "other" THEN Traceback("fs_write")
    ELSE IF ~fs_write_safe(p.ti_edits) THEN
        BlockText("fs_write", "BLOCKED: filesystem write safety violation")
    ELSE [Allow("fs_write") EXCEPT !.status = "fs_write_safe"]

(***************************************************************************)
(* pre_intent_classification.py                                            *)
(***************************************************************************)
\* INTENT_PATTERNS: the categories in the order of the dict, and the weight
\* (in hundredths) of each pattern of a category.
IntentOrder == <<"code_write", "repair", "audit", "explore">>
IntentWeights(intent) ==
    IF intent = "code_write" THEN <<90, 85, 80>>
    ELSE IF intent = "repair" THEN <<85, 80, 95>>
    ELSE IF intent = "audit" THEN <<85, 95, 70>>
    ELSE <<85, 80, 75>>

\* max_score of a category: the largest weight among its matching patterns.
IntentScore(prompt, intent) ==
    LET ws == {IntentWeights(intent)[i] : i \in {j \in 1..3 : <<intent, j>> \in prompt.matches}}
    IN  IF ws = {} THEN 0 ELSE CHOOSE w \in ws : \A v \in ws : v <= w

\* max(scores, key=scores.get): the first category with the largest score.
PrimaryIntent(prompt) ==
    LET best == CHOOSE i \in 1..4 :
                    /\ \A j \in 1..4 : IntentScore(prompt, IntentOrder[j])
                                          <= IntentScore(prompt, IntentOrder[i])
                    /\ \A j \in 1..(i - 1) : IntentScore(prompt, IntentOrder[j])
                                                < IntentScore(prompt, IntentOrder[i])
    IN  IntentOrder[best]

classify_intent(prompt) ==
    IF prompt.empty THEN [intent |-> "explore", confidence |-> 50]
    ELSE [intent |-> PrimaryIntent(prompt),
          confidence |-> IntentScore(prompt, PrimaryIntent(prompt))]

IntentClassification(p) ==
    IF p.json = "invalid" THEN
        [Traceback("intent") EXCEPT !.status = Missing,
                                    !.stderr = "ERROR: Invalid JSON input"]
    ELSE IF p.json = "other" THEN Traceback("intent")
    ELSE [Allow("intent") EXCEPT !.intent = classify_intent(p.ti_prompt).intent,
                                 !.confidence = classify_intent(p.ti_prompt).confidence]

(***************************************************************************)
(* pre_user_prompt_gate.py                                                 *)
(***************************************************************************)
\* detect_mutation_intent: one of the mutation verbs occurs as a word.
detect_mutation_intent(prompt) == prompt.mutation

\* extract_plan_reference: the reference found, or None.
extract_plan_reference(prompt) == prompt.plan_ref

\* main(): the markers are printed and the hook exits 0; the policy file is
\* located at import time and never read.
UserPromptGate(p, sys, local) ==
    IF p.json = "invalid" THEN [NoOut EXCEPT !.hook = "prompt_gate", !.exit = 1]
    ELSE IF p.json = "other" THEN Traceback("prompt_gate")
    ELSE
        LET prompt == p.ti_prompt
            is_mutation == detect_mutation_intent(prompt)
            plan_ref == extract_plan_reference(prompt)
        IN  IF ~is_mutation THEN
                [Allow("prompt_gate") EXCEPT !.mutation_requested = "false"]
            ELSE IF plan_ref # Missing THEN
                [Allow("prompt_gate") EXCEPT
                    !.mutation_requested = "true",
                    !.marker = "ATLAS_PLAN_REQUESTED=" \o plan_ref]
            ELSE
                [Allow("prompt_gate") EXCEPT
                    !.mutation_requested = "true",
                    !.marker = "ATLAS_MUTATION_NO_PLAN"]

(***************************************************************************)
(* pre_write_code_policy.py                                                *)
(***************************************************************************)
\* line.strip() == "" for the lines of the payloads.
BlankLine(line) == line \in {"", "  "}

\* is_comment: blank, or the stripped line starts with a COMMENT_PREFIXES entry.
is_comment(line) == BlankLine(line) \/ line \in {"# note", "// note", "* p = 0;"}

\* is_executable: not blank, not a comment, not made of punctuation only.
is_executable(line) ==
    /\ ~BlankLine(line)
    /\ ~is_comment(line)
    /\ line \notin {"}", "});"}

\* count_exec: the number of executable lines of code.splitlines().
RECURSIVE count_exec(_)
count_exec(code) ==
    IF code.lines = <<>> THEN 0
    ELSE (IF is_executable(Head(code.lines)) THEN 1 ELSE 0)
         + count_exec([code EXCEPT !.lines = Tail(code.lines)])

\* code.strip() != ""
StripNonEmpty(code) == \E i \in 1..Len(code.lines) : ~BlankLine(code.lines[i])

\* detect_language: the language of the path's extension, lower-cased.
detect_language(path) ==
    IF path.parts = <<>> THEN "unknown"
    ELSE LET ext == Suffix(path.parts[Len(path.parts)]) IN
         IF ext = ".py" THEN "python"
         ELSE IF ext = ".go" THEN "go"
         ELSE "unknown"

\* "test" in name.lower() and "spec" in name.lower(), for the names of the payloads.
NameHasTest(name) == name \in {"tests", "test_app.py", "latest"}
NameHasSpec(name) == name \in {"inspector.py", "specs"}

\* The edits main() skips: "test" or "spec" anywhere in the lower-cased path,
\* or a path ending in .json, .md, .yaml or .yml.
SkippedPath(path) ==
    \/ \E i \in 1..Len(path.parts) :
          NameHasTest(path.parts[i]) \/ NameHasSpec(path.parts[i])
    \/ /\ path.parts # <<>>
       /\ Suffix(path.parts[Len(path.parts)]) \in {".json", ".md", ".yaml", ".yml"}

\* The content checks that apply to every language, and those of one language.
GenericChecks == {"placeholder", "demo_data", "disabled", "magic_number"}
LanguageChecks(lang) ==
    IF lang = "python" THEN {"python_stub", "return_comment", "no_error_handling"}
    ELSE IF lang = "go" THEN {"go_stub"}
    ELSE {}

\* The violations main() collects for one edit that is not skipped.
EditViolations(e, prohibited) ==
    LET old == e.old_string
        new == e.new_string
        old_exec == count_exec(old)
        new_exec == count_exec(new)
    IN  (new.hits \cap (prohibited \cup GenericChecks
                         \cup LanguageChecks(detect_language(e.path))))
        \cup (IF old_exec > 0 /\ new_exec < old_exec /\ StripNonEmpty(new)
              THEN {"logic_removal"} ELSE {})
        \cup (IF StripNonEmpty(old) /\ ~StripNonEmpty(new)
              THEN {"code_removed"} ELSE {})

\* main(): the policy is loaded first, then the payload; neither load is
\* guarded, so a malformed file or payload ends in a traceback.
CodePolicy(p, sys, local) ==
    LET policy == LoadPolicyText(resolve_policy_path(sys, local)) IN
    IF policy.crash \/ p.json # "object" THEN Traceback("code_policy")
    ELSE IF \E i \in 1..Len(p.ti_edits) :
               /\ ~SkippedPath(p.ti_edits[i].path)
               /\ EditViolations(p.ti_edits[i], policy.prohibited_patterns) # {}
         THEN BlockText("code_policy", "BLOCKED: pre_write_code policy violation")
         ELSE Allow("code_policy")

(***************************************************************************)
(* pre_filesystem_write_atlas_enforcement.py                               *)
(***************************************************************************)
\* Facts about the names of the payloads' paths, lower-cased: the name holds
\* ".ssh", ".aws" or ".env"; it begins with "etc", "proc", "sys" or "root";
\* it ends with "build", "dist" or "node_modules"; it ends with "..".
HoldsSecretName(name) == name \in {".ssh", ".aws", ".env"}
BeginsWithSystemRoot(name) == name \in {"etc", "proc", "sys", "system", "root"}
EndsWithArtifactDir(name) == name \in {"build", "dist", "node_modules"}
EndsWithDotDot(name) == name = ".."

\* is_forbidden_path: a FORBIDDEN_PATHS key is a substring of the lower-cased
\* path.  Keys that begin with "/" need a separator before the name, keys that
\* end with "/" need one after it.
is_forbidden_path(path) ==
    \E i \in 1..Len(path.parts) :
        \/ HoldsSecretName(path.parts[i])
        \/ (path.abs \/ i > 1) /\ BeginsWithSystemRoot(path.parts[i])
        \/ /\ (path.abs \/ i > 1)
           /\ i < Len(path.parts)
           /\ path.parts[i] = "var"
           /\ path.parts[i + 1] = "log"
        \/ /\ i < Len(path.parts)
           /\ path.parts[i] = ".git"
           /\ path.parts[i + 1] = "config"
        \/ i < Len(path.parts) /\ EndsWithArtifactDir(path.parts[i])

\* path.endswith(ext) for a FORBIDDEN_EXTENSIONS key; the comparison is
\* case-sensitive.
is_forbidden_extension(path) ==
    /\ path.parts # <<>>
    /\ path.parts[Len(path.parts)] \in {"tool.exe", "lib.jar"}

\* is_escape_attempt: "../" in the path, a leading "/", or a leading "~".
is_escape_attempt(path) ==
    \/ \E i \in 1..(Len(path.parts) - 1) : EndsWithDotDot(path.parts[i])
    \/ path.abs
    \/ /\ path.parts # <<>>
       /\ path.parts[1] \in {"~", "~backup"}

\* The violations analyze_filesystem_writes records for one edit.
WriteViolations(e, execution_profile) ==
    IF e.path = EmptyPath THEN {}
    ELSE (IF is_forbidden_path(e.path) THEN {"forbidden_path"} ELSE {})
         \cup (IF is_forbidden_extension(e.path) THEN {"forbidden_extension"} ELSE {})
         \cup (IF is_escape_attempt(e.path) THEN {"escape_attempt"} ELSE {})
         \cup (IF execution_profile = "execution_only" /\ e.new_string.lines # <<>>
               THEN {"execution_only_violation"} ELSE {})

AtlasEnforcement(p, sys, local) ==
    IF p.json = "invalid" THEN
        BlockText("atlas_enforcement", "BLOCKED: pre_filesystem_write_atlas_enforcement")
    ELSE
        LET policy == LoadPolicyText(resolve_policy_path(sys, local)) IN
        IF policy.crash THEN Traceback("atlas_enforcement")
        ELSE IF ProfileOf(policy) = "locked" THEN
            BlockText("atlas_enforcement", "BLOCKED: pre_filesystem_write_atlas_enforcement")
        ELSE IF p.json = "other" THEN Traceback("atlas_enforcement")
        ELSE IF \E i \in 1..Len(p.ti_edits) :
                   WriteViolations(p.ti_edits[i], ProfileOf(policy)) # {}
             THEN BlockText("atlas_enforcement",
                            "BLOCKED: pre_filesystem_write_atlas_enforcement")
             ELSE Allow("atlas_enforcement")

(***************************************************************************)
(* pre_filesystem_write_enforcement_protection.py                          *)
(***************************************************************************)
\* PROTECTED_PATHS, each as the components between its slashes.
PROTECTED_PATHS ==
    {<<"usr", "local", "share", "windsurf-hooks">>,
     <<"etc", "windsurf", "policy">>,
     <<".local", "share", "windsurf-hooks">>}

\* path.startswith(protected): the path as written begins with "/", the
\* components of the protected directory and another "/".
StartsWithProtected(path, protected) ==
    /\ path.abs
    /\ Len(path.parts) > Len(protected)
    /\ SubSeq(path.parts, 1, Len(protected)) = protected

EnforcementProtection(p) ==
    IF p.json # "object" THEN Traceback("enforcement_protection")
    \* tool_info.get("tool_name", ""): the other name keys are not read
    ELSE IF p.ti_tool_name = "atlas_gate.write" THEN Allow("enforcement_protection")
    ELSE IF \E i \in 1..Len(p.ti_edits) : \E protected \in PROTECTED_PATHS :
               StartsWithProtected(p.ti_edits[i].path, protected)
         THEN BlockText("enforcement_protection",
                        "BLOCKED: Enforcement system protection violation")
         ELSE Allow("enforcement_protection")

(***************************************************************************)
(* The stateless hooks, each applied to the payload on stdin under the     *)
(* policy files in place.                                                  *)
(***************************************************************************)
EditOf(path, old, new) == [path |-> path, old_string |-> old, new_string |-> new]
Edit(path) == EditOf(path, EmptyContent, Text(<<"x = 1">>))
RelPath(parts) == [abs |-> FALSE, parts |-> parts]
AbsPath(parts) == [abs |-> TRUE, parts |-> parts]

EditLists ==
    {<<>>,
     <<Edit(RelPath(<<"src", "app.py">>))>>,
     <<Edit(RelPath(<<"src", "new.py">>))>>,
     <<Edit(RelPath(<<"..", "..", "etc", "passwd">>))>>,
     <<Edit(RelPath(<<"..", "repo-old", "app.py">>))>>,
     <<Edit(RelPath(<<"bin", "tool.exe">>))>>,
     <<Edit(RelPath(<<"builder", "app.py">>))>>,
     <<Edit(EmptyPath)>>,
     <<Edit(RelPath(<<"src", "app.py">>)), Edit(AbsPath(<<"etc", "passwd">>))>>,
     [i \in 1..MAX_NEW_FILES |-> Edit(RelPath(<<"src", "new.py">>))],
     [i \in 1..(MAX_NEW_FILES + 1) |-> Edit(RelPath(<<"src", "new.py">>))]}

\* Old and new content of an edit: logic is removed, kept, emptied, replaced
\* by a comment, or came with a stub or a prohibited marker.
ContentChanges ==
    {<<Text(<<"x = 1", "y = 2">>), Text(<<"x = 1">>)>>,
     <<Text(<<"x = 1", "y = 2">>), Text(<<"# note">>)>>,
     <<Text(<<"x = 1">>), Text(<<"x = 1", "y = 2", "}">>)>>,
     <<Text(<<"x = 1">>), EmptyContent>>,
     <<Text(<<"x = 1">>), Text(<<"  ">>)>>,
     <<EmptyContent, [Text(<<"x = 1">>) EXCEPT !.hits = {"TODO"}]>>,
     <<EmptyContent, [Text(<<"x = 1">>) EXCEPT !.hits = {"python_stub"}]>>}

CodePaths ==
    {RelPath(<<"src", "app.py">>), RelPath(<<"tests", "test_app.py">>),
     RelPath(<<"src", "inspector.py">>), RelPath(<<"README.md">>),
     RelPath(<<"cmd", "main.go">>), EmptyPath}

\* Paths at the boundary of the work tree, each written and emptied.
BoundaryPaths ==
    {RelPath(<<"src", "app.py">>),
     RelPath(<<"src", "..">>),
     RelPath(<<"~", ".ssh", "id_rsa">>),
     RelPath(<<"src", "~backup", "app.py">>),
     RelPath(<<"build", "out.py">>),
     RelPath(<<"src", "system", "app.py">>),
     RelPath(<<"bin", "TOOL.EXE">>),
     AbsPath(<<"etc", "passwd">>)}

BoundaryEditLists ==
    {<<EditOf(path, c[1], c[2])>> :
        path \in BoundaryPaths,
        c \in {<<EmptyContent, Text(<<"x = 1">>)>>, <<Text(<<"x = 1">>), EmptyContent>>}}

\* Paths inside and outside the gateway's installation directories.
HOME == <<"home", "dev">>
InstallPaths ==
    {AbsPath(<<"usr", "local", "share", "windsurf-hooks", "kill_switch.py">>),
     AbsPath(<<"etc", "windsurf", "policy", "policy.json">>),
     AbsPath(HOME \o <<".local", "share", "windsurf-hooks", "kill_switch.py">>),
     AbsPath(<<".local", "share", "windsurf-hooks", "kill_switch.py">>),
     RelPath(<<"..", "..", "..", "etc", "windsurf", "policy", "policy.json">>),
     RelPath(<<"~", ".local", "share", "windsurf-hooks", "kill_switch.py">>)}

InstallEditLists ==
    {<<Edit(path)>> : path \in InstallPaths}
    \cup {<<Edit(RelPath(<<"src", "app.py">>)),
            Edit(AbsPath(<<"etc", "windsurf", "policy", "policy.json">>))>>}

CodeEditLists ==
    {<<EditOf(path, c[1], c[2])>> : path \in CodePaths, c \in ContentChanges}

\* "hello"; "implement the parser" with and without the tokens, "proceed" and
\* a plan reference; "fix the bug [MODE:REPAIR]"; "write it [MODE:AUDIT]".
Prompt(matches, mutation, ref, words) ==
    [empty |-> FALSE, matches |-> matches, mutation |-> mutation,
     plan_ref |-> ref, words |-> words]

Prompts ==
    {NoPrompt,
     Prompt({}, FALSE, Missing, {}),
     Prompt({}, FALSE, Missing, {"proceed"}),
     Prompt({<<"repair", 1>>, <<"repair", 3>>}, FALSE, Missing, {}),
     Prompt({<<"code_write", 1>>, <<"audit", 2>>}, TRUE, Missing, {"audit_ok"})}
    \cup {Prompt({<<"code_write", 1>>}, TRUE, ref, ws) :
            ref \in {Missing, "auth-refactor"},
            ws \in {{}, {"proceed"}, {"audit_ok", "proceed"},
                    {"audit_ok", "ship_ok", "proceed"}}}

ToolPayload(name, ctx) ==
    [EmptyObject EXCEPT !.ti_tool_name = name, !.tool_name = name, !.context = ctx]

HookPayloads ==
    {NotJson, JsonNonObj, EmptyObject}
    \cup {ToolPayload(n, c) :
            n \in {"mcp_atlas-gate-mcp_begin_session", "mcp_atlas-gate-mcp_read_file",
                   "begin_session", "atlas_gate.delete", "run_command", "  "},
            c \in {{}, {"ATLAS_SESSION_OK"}}}
    \cup {[ToolPayload("mcp_atlas-gate-mcp_write_file", c) EXCEPT !.ti_plan = h] :
            c \in {{"ATLAS_SESSION_OK"}, {"ATLAS_SESSION_OK", "ATLAS_PROMPT_UNLOCKED"}},
            h \in {Missing, "  ", "b3:9f2c"}}
    \cup {[EmptyObject EXCEPT !.ti_name = "atlas_gate.read", !.ti_path = x] :
            x \in {Missing, Null, "  ", "src/app.py"}}
    \cup {[ToolPayload("atlas_gate.write", {}) EXCEPT !.ti_path = "src/app.py",
                                                     !.ti_content = x] :
            x \in {Missing, "x = 1"}}
    \cup {[ToolPayload("atlas_gate.exec", {}) EXCEPT !.ti_command = x] :
            x \in {"", "ls"}}
    \cup {[ToolPayload("run_command", {}) EXCEPT !.ti_command = x, !.command = y] :
            x \in {"ls", "rm -rf /"}, y \in {Missing, "ls", "rm -rf /"}}
    \cup {[ToolPayload("write_to_file", {}) EXCEPT !.ti_edits = es] :
            es \in EditLists \cup CodeEditLists \cup BoundaryEditLists
                   \cup InstallEditLists}
    \cup {[ToolPayload("atlas_gate.write", {}) EXCEPT !.ti_edits = es] :
            es \in InstallEditLists}
    \cup {[EmptyObject EXCEPT !.ti_name = "atlas_gate.write", !.ti_edits = es] :
            es \in InstallEditLists}
    \cup {[EmptyObject EXCEPT !.ti_prompt = pr] : pr \in Prompts}

(***************************************************************************)
(* The post_write hooks: post_write_coverage_enforcement.py,               *)
(* post_write_self_contained_enforcement.py and post_write_verify.py.      *)
(* They run after the edit has been applied, so an edited file holds the   *)
(* edit's new_string; tests/test_app.py holds what the work tree says.     *)
(***************************************************************************)
\* path.endswith((".json", ".md", ".yaml", ".yml", ".toml", ".config"))
ConfigSuffixes == {".json", ".md", ".yaml", ".yml", ".toml", ".config"}
EndsWithConfigSuffix(path) ==
    path.parts # <<>> /\ Suffix(path.parts[Len(path.parts)]) \in ConfigSuffixes

\* "test" in path.lower() or "spec" in path.lower()
PathHasTestOrSpec(path) ==
    \E i \in 1..Len(path.parts) :
        NameHasTest(path.parts[i]) \/ NameHasSpec(path.parts[i])

\* "mock" in path.lower(), for the names of the payloads.
NameHasMock(name) == name = "mock_data.py"

\* Path(source_path).stem, for the names of the payloads.
Stem(path) ==
    LET name == path.parts[Len(path.parts)] IN
    IF name = "app.py" THEN "app"
    ELSE IF name = "main.go" THEN "main"
    ELSE IF name = "mock_data.py" THEN "mock_data"
    ELSE name

\* find_test_file of both hooks: the first existing file among the name
\* patterns in the test folders; the work tree has tests/test_app.py or none.
find_test_file(source_path) ==
    IF repo.test.exists /\ Stem(source_path) = "app" THEN repo.test ELSE NoTestFile

\* What Path(path).read_text() gives for an edited path.
OnDisk(e) ==
    IF e.path = [abs |-> FALSE, parts |-> <<"tests", "test_app.py">>] THEN repo.test
    ELSE TestFile(e.new_string.hits)

\* post_write_coverage_enforcement.py, main(): the edits that are not tracked
\* as source files.
CoverageSkipped(path) ==
    \/ PathHasTestOrSpec(path)
    \/ EndsWithConfigSuffix(path)
    \/ detect_language(path) = "unknown"

\* main(): the violations for one tracked source file.
CoverageViolations(source_path) ==
    LET test_file == find_test_file(source_path)
        lang == detect_language(source_path)
    IN  IF ~test_file.exists THEN {"no_test_file"}
        ELSE (IF "cov_mock" \in test_file.hits THEN {"mock"} ELSE {})
             \cup (IF lang = "python" /\ "cov_test_fn" \notin test_file.hits
                   THEN {"no_test_functions"} ELSE {})
             \cup (IF lang = "go" /\ "cov_go_test_fn" \notin test_file.hits
                   THEN {"no_test_functions"} ELSE {})
             \cup (IF "long" \notin test_file.hits THEN {"empty"} ELSE {})

\* main(): json.load is not guarded; fail() prints the BLOCKED line and exits
\* with status 2.
CoverageEnforcement(p) ==
    IF p.json # "object" THEN Traceback("coverage")
    ELSE IF \E i \in 1..Len(p.ti_edits) :
               /\ ~CoverageSkipped(p.ti_edits[i].path)
               /\ CoverageViolations(p.ti_edits[i].path) # {}
         THEN BlockText("coverage", "BLOCKED: post_write_coverage_enforcement violation")
         ELSE Allow("coverage")

\* post_write_self_contained_enforcement.py, main(): the edits that are not
\* tracked as source files.
SelfContainedSkipped(path) ==
    \/ PathHasTestOrSpec(path)
    \/ \E i \in 1..Len(path.parts) : NameHasMock(path.parts[i])
    \/ EndsWithConfigSuffix(path)
    \/ detect_language(path) = "unknown"

\* check_test_validity: mocks, length, test functions of the language,
\* placeholders.
check_test_validity(test_file, lang) ==
    (IF "sc_mock" \in test_file.hits THEN {"mock"} ELSE {})
    \cup (IF "long" \notin test_file.hits THEN {"empty"} ELSE {})
    \cup (IF (lang = "python" /\ "sc_test_fn" \in test_file.hits)
             \/ (lang = "go" /\ "sc_go_test_fn" \in test_file.hits)
          THEN {} ELSE {"no_tests"})
    \cup (IF "sc_placeholder" \in test_file.hits THEN {"placeholder"} ELSE {})

\* "__init__", "__main__", "main.py" or "main.js" in source_path
IsEntryPoint(path) ==
    \E i \in 1..Len(path.parts) : path.parts[i] \in {"__init__.py", "main.py"}

\* main(): lint configuration, syntax, tests and type-checking configuration
\* for one tracked source file.
SelfContainedViolations(e) ==
    LET lang == detect_language(e.path)
        test_file == find_test_file(e.path)
    IN  (IF lang \notin repo.lint THEN {"no_lint_config"} ELSE {})
        \cup (IF lang = "python" /\ "syntax_error" \in OnDisk(e).hits
              THEN {"syntax"} ELSE {})
        \cup (IF IsEntryPoint(e.path) THEN {}
              ELSE IF ~test_file.exists THEN {"no_test_file"}
              ELSE check_test_validity(test_file, lang))
        \cup (IF lang = "python" /\ ~repo.mypy THEN {"no_mypy_config"} ELSE {})

SelfContainedEnforcement(p) ==
    IF p.json # "object" THEN Traceback("self_contained")
    ELSE IF \E i \in 1..Len(p.ti_edits) :
               /\ ~SelfContainedSkipped(p.ti_edits[i].path)
               /\ SelfContainedViolations(p.ti_edits[i]) # {}
         THEN BlockText("self_contained",
                        "BLOCKED: post_write_self_contained_enforcement violation")
         ELSE Allow("self_contained")

\* post_write_verify.py, main(): edits with an empty new_string, configuration
\* files and unknown languages are skipped.
VerifySkipped(e) ==
    \/ e.new_string.lines = <<>>
    \/ EndsWithConfigSuffix(e.path)
    \/ detect_language(e.path) = "unknown"

\* validate_syntax: the file is read back and compiled or counted.
validate_syntax(e) ==
    LET content == OnDisk(e) IN
    IF ~content.exists THEN {"cannot_read"}
    ELSE (IF detect_language(e.path) = "python" /\ "syntax_error" \in content.hits
          THEN {"syntax"} ELSE {})
         \cup (IF detect_language(e.path) = "go" /\ "braces" \in content.hits
               THEN {"braces"} ELSE {})
         \cup (content.hits \cap {"brackets", "parens"})

\* check_mock_patterns: only for a path with "test" or "spec" in it, and only
\* the nine patterns listed there, matched with their case.
check_mock_patterns(e) ==
    IF PathHasTestOrSpec(e.path) /\ OnDisk(e).exists /\ "v_mock" \in OnDisk(e).hits
    THEN {"mock"} ELSE {}

VerifyViolations(e) ==
    validate_syntax(e) \cup check_mock_patterns(e)
        \cup (IF "v_incomplete" \in e.new_string.hits THEN {"incomplete"} ELSE {})

Verify(p) ==
    IF p.json # "object" THEN Traceback("verify")
    ELSE IF \E i \in 1..Len(p.ti_edits) :
               ~VerifySkipped(p.ti_edits[i]) /\ VerifyViolations(p.ti_edits[i]) # {}
         THEN BlockText("verify", "BLOCKED: post_write_verify validation failed")
         ELSE Allow("verify")

\* The contents of tests/test_app.py: two real tests; the same with a call of
\* Mock(), with "from unittest.mock import patch", with a call of Spy(); and a
\* file that holds nothing but a Mock() call.
CleanTest == TestFile({"cov_test_fn", "sc_test_fn", "long"})
MockCallTest ==
    TestFile({"cov_mock", "sc_mock", "v_mock", "cov_test_fn", "sc_test_fn", "long"})
UnittestMockTest == TestFile({"cov_mock", "sc_mock", "cov_test_fn", "sc_test_fn", "long"})
SpyCallTest == TestFile({"cov_mock", "sc_mock", "cov_test_fn", "sc_test_fn", "long"})
MockOnlyTest == TestFile({"cov_mock", "sc_mock", "v_mock"})

TestContents ==
    {NoTestFile, CleanTest, MockCallTest, UnittestMockTest, SpyCallTest, MockOnlyTest}

\* The mypy test is true only when pyproject.toml exists, which is also a lint
\* configuration for Python.
Repos ==
    {r \in [test : TestContents, lint : {{}, {"python", "go"}}, mypy : BOOLEAN] :
        r.mypy => "python" \in r.lint}

\* The edit that wrote tests/test_app.py as the work tree has it.
TestEdit(test) ==
    EditOf(RelPath(<<"tests", "test_app.py">>), EmptyContent,
           [lines |-> <<"def test_add():">>, hits |-> test.hits])

SourceEdit(name, hits) ==
    EditOf(RelPath(<<"src", name>>), EmptyContent,
           [lines |-> <<"def add(a, b):">>, hits |-> hits])

\* Edit lists: a source file, clean, incomplete or not compiling; the test
\* file alone (when it exists); both; files without a counterpart; none.
PostWriteEditLists(test) ==
    {<<>>,
     <<SourceEdit("app.py", {})>>,
     <<SourceEdit("app.py", {"v_incomplete"})>>,
     <<SourceEdit("app.py", {"syntax_error"})>>,
     <<SourceEdit("mock_data.py", {})>>,
     <<SourceEdit("inspector.py", {})>>,
     <<EditOf(RelPath(<<"cmd", "main.go">>), EmptyContent, Text(<<"package main">>))>>,
     <<EditOf(RelPath(<<"README.md">>), EmptyContent, Text(<<"# notes">>))>>}
    \cup (IF test.exists
          THEN {<<TestEdit(test)>>, <<SourceEdit("app.py", {}), TestEdit(test)>>}
          ELSE {})

PostWritePayloads(test) ==
    {[EmptyObject EXCEPT !.ti_edits = es] : es \in PostWriteEditLists(test)}
        \cup {NotJson, JsonNonObj}

InitDisk ==
    /\ stateFile = NoFile
    /\ sessionAudit = <<>>
    /\ planHashFile = NoFile
    /\ planContextFile = NoFile
    /\ planAudit = <<>>
    /\ reasoningAudit = <<>>
    /\ writeAudit = <<>>

\* A policy with a command blocklist, the two prompt tokens and a prohibited
\* pattern.
FullPolicy(profile) ==
    [PolicyObject(profile, {}) EXCEPT !.block_commands_regex = {"rm\\s+-rf"},
                                      !.tokens = {"audit_ok", "ship_ok"},
                                      !.prohibited_patterns = {"TODO"}]

Profiles == {Missing, "standard", "execution_only", "locked"}

SysPolicyFiles ==
    {NoPolicyFile, EmptyPolicyFile, MalformedPolicyFile}
    \cup {PolicyObject(pr, al) :
            pr \in Profiles, al \in {{}, {"mcp_atlas-gate-mcp_begin_session"}}}
    \cup {FullPolicy(pr) : pr \in {"standard", "execution_only"}}

LocalPolicyFiles ==
    {NoPolicyFile, PolicyObject("locked", {}), PolicyObject("execution_only", {})}

InitHooks ==
    /\ InitDisk
    /\ repo = EmptyRepo
    /\ policySys \in SysPolicyFiles
    /\ policyLocal \in LocalPolicyFiles
    /\ stdin \in HookPayloads
    /\ out = NoOut
    /\ pc = [p \in Procs |-> "idle"]
    /\ reg = [p \in Procs |-> NoReg]

HookFrame == UNCHANGED <<diskSession, diskPlan, diskPolicy, diskRepo, diskAudit, stdin, pc, reg>>

RunMcpAllowlist == out' = McpAllowlist(stdin, policySys, policyLocal) /\ HookFrame
RunAtlasGate == out' = AtlasGate(stdin, policySys) /\ HookFrame
RunKillSwitch == out' = KillSwitch(stdin, policySys) /\ HookFrame
RunBlocklist == out' = Blocklist(stdin, policySys, policyLocal) /\ HookFrame
RunFilesystemWrite == out' = FilesystemWrite(stdin) /\ HookFrame
RunIntentClassification == out' = IntentClassification(stdin) /\ HookFrame
RunUserPromptGate == out' = UserPromptGate(stdin, policySys, policyLocal) /\ HookFrame
RunCodePolicy == out' = CodePolicy(stdin, policySys, policyLocal) /\ HookFrame
RunAtlasEnforcement == out' = AtlasEnforcement(stdin, policySys, policyLocal) /\ HookFrame
RunEnforcementProtection == out' = EnforcementProtection(stdin) /\ HookFrame

NextHooks ==
    \/ RunMcpAllowlist
    \/ RunAtlasGate
    \/ RunKillSwitch
    \/ RunBlocklist
    \/ RunFilesystemWrite
    \/ RunIntentClassification
    \/ RunUserPromptGate
    \/ RunCodePolicy
    \/ RunAtlasEnforcement
    \/ RunEnforcementProtection

SpecHooks == InitHooks /\ [][NextHooks]_vars

\* The post_write hooks applied to one payload in one work tree.
InitPostWrite ==
    /\ InitDisk
    /\ repo \in Repos
    /\ stdin \in PostWritePayloads(repo.test)
    /\ policySys = NoPolicyFile
    /\ policyLocal = NoPolicyFile
    /\ out = NoOut
    /\ pc = [p \in Procs |-> "idle"]
    /\ reg = [p \in Procs |-> NoReg]

RunCoverageEnforcement == out' = CoverageEnforcement(stdin) /\ HookFrame
RunSelfContainedEnforcement == out' = SelfContainedEnforcement(stdin) /\ HookFrame
RunVerify == out' = Verify(stdin) /\ HookFrame

NextPostWrite ==
    \/ RunCoverageEnforcement
    \/ RunSelfContainedEnforcement
    \/ RunVerify

SpecPostWrite == InitPostWrite /\ [][NextPostWrite]_vars

InitIdle ==
    /\ repo = EmptyRepo
    /\ policySys = NoPolicyFile
    /\ policyLocal = NoPolicyFile
    /\ stdin = EmptyObject
    /\ out = NoOut
    /\ pc = [p \in Procs |-> "idle"]
    /\ reg = [p \in Procs |-> NoReg]

Init == InitDisk /\ InitIdle

SessionInvocation ==
    /\ \E p \in SessionPayloads : SessionHook(p)
    /\ UNCHANGED <<diskPlan, diskPolicy, diskRepo, diskAudit, pc, reg>>

Next == SessionInvocation

Spec == Init /\ [][Next]_vars

\* Invocations of the session state hook one after another, each with any
\* outcome of the state file write.
SessionFaultInvocation ==
    /\ \E p \in SessionPayloads, o \in WriteOutcomes : SessionHookFaulty(p, o)
    /\ UNCHANGED <<diskPlan, diskPolicy, diskRepo, diskAudit, pc, reg>>

NextSessionFault == SessionFaultInvocation

SpecSessionFault == Init /\ [][NextSessionFault]_vars

PlanInvocation ==
    /\ \E p \in PlanPayloads : PlanHook(p)
    /\ UNCHANGED <<diskSession, diskPolicy, diskRepo, diskAudit, pc, reg>>

NextPlan == PlanInvocation

SpecPlan == Init /\ [][NextPlan]_vars

(***************************************************************************)
(* Non-overlapping invocations of the four hooks that keep files under     *)
(* /tmp: the session state hook, the plan hook, the reasoning detector and *)
(* the write_file guardrail, in any order.                                 *)
(***************************************************************************)
GatewaySessionPayloads ==
    {[EmptyObject EXCEPT !.tool_name = t] :
        t \in {"begin_session", "end_session", "run_command"}}

GatewayPlanPayloads ==
    {[EmptyObject EXCEPT !.plan = pl, !.action = a] :
        pl \in {PlanA, PlanB}, a \in {"init", "verify"}}

ReasoningPayloads ==
    {[EmptyObject EXCEPT !.tool_name = "write_file", !.arguments = a] :
        a \in ReasoningArguments}
        \cup {NotJson, JsonNonObj}

\* write_file payloads: with and without a plan hash, with the hash of either
\* plan, with a path inside and outside the workspace, with and without an
\* intent.
WritePayloads ==
    {[EmptyObject EXCEPT !.path = RelPath(<<"src", "app.py">>), !.plan_hash = h,
                         !.intent = "add the parser"] :
        h \in {Missing, "", compute_plan_hash(PlanA), compute_plan_hash(PlanB)}}
        \cup {[EmptyObject EXCEPT !.path = RelPath(<<"..", "app.py">>),
                                  !.plan_hash = compute_plan_hash(PlanA),
                                  !.intent = "add the parser"],
               [EmptyObject EXCEPT !.path = RelPath(<<"src", "app.py">>),
                                  !.plan_hash = compute_plan_hash(PlanA),
                                  !.intent = "  "],
               [EmptyObject EXCEPT !.path = RelPath(<<"src", "app.py">>),
                                  !.plan_hash = compute_plan_hash(PlanA),
                                  !.intent = Null],
               EmptyObject, NotJson, JsonNonObj}

\* The lines the four logs hold together.
GatewayLines ==
    Len(sessionAudit) + Len(planAudit) + Len(reasoningAudit) + Len(writeAudit)

GatewaySession ==
    /\ GatewayLines < MaxGatewayLines
    /\ \E p \in GatewaySessionPayloads : SessionHook(p)
    /\ UNCHANGED <<diskPlan, diskPolicy, diskRepo, diskAudit, pc, reg>>

GatewayPlan ==
    /\ GatewayLines < MaxGatewayLines
    /\ \E p \in GatewayPlanPayloads : PlanHook(p)
    /\ UNCHANGED <<diskSession, diskPolicy, diskRepo, diskAudit, pc, reg>>

ReasoningInvocation ==
    /\ GatewayLines < MaxGatewayLines
    /\ \E p \in ReasoningPayloads : ReasoningHook(p)
    /\ UNCHANGED <<diskSession, diskPlan, diskPolicy, diskRepo, writeAudit, pc, reg>>

WriteFileInvocation ==
    /\ GatewayLines < MaxGatewayLines
    /\ \E p \in WritePayloads : WriteFileHook(p)
    /\ UNCHANGED <<diskSession, diskPlan, diskPolicy, diskRepo, reasoningAudit, pc, reg>>

NextGateway ==
    \/ GatewaySession
    \/ GatewayPlan
    \/ ReasoningInvocation
    \/ WriteFileInvocation

SpecGateway == Init /\ [][NextGateway]_vars

(***************************************************************************)
(* The three hooks bound to pre_mcp_tool_use that decide on the tool name, *)
(* run one after another on the payload of one tool call: the allowlist,   *)
(* the primary gate, the session state hook.  Each is a process of its own *)
(* and reads the same stdin; pc[1] is the place in the chain.  The policy  *)
(* files are those of a deployment under the standard profile.             *)
(***************************************************************************)
ChainPolicyFiles ==
    {NoPolicyFile, EmptyPolicyFile}
    \cup {PolicyObject(pr, al) :
            pr \in {Missing, "standard"},
            al \in {{}, {"mcp_atlas-gate-mcp_begin_session"}}}

\* Tool calls: the name in tool_info.tool_name, with and without the same
\* call's bare name at the top level of the payload.
ChainPayloads ==
    {[ToolPayload(n, c) EXCEPT !.tool_name = t] :
        n \in {"mcp_atlas-gate-mcp_begin_session", "mcp_atlas-gate-mcp_read_file",
               "atlas_gate.delete"},
        c \in {{}, {"ATLAS_SESSION_OK"}},
        t \in {Missing, "begin_session", "read_file", "end_session"}}

InitChain ==
    /\ InitDisk
    /\ repo = EmptyRepo
    /\ policySys \in ChainPolicyFiles
    /\ policyLocal = NoPolicyFile
    /\ stdin = EmptyObject
    /\ out = NoOut
    /\ pc = [p \in Procs |-> "idle"]
    /\ reg = [p \in Procs |-> NoReg]

\* A tool call arrives and pre_mcp_tool_use_allowlist.py runs on it.
ChainMcpAllowlist ==
    /\ pc[1] = "idle"
    /\ \E p \in ChainPayloads :
          /\ stdin' = p
          /\ out' = McpAllowlist(p, policySys, policyLocal)
    /\ pc' = [pc EXCEPT ![1] = "allowlist_done"]
    /\ UNCHANGED <<diskSession, diskPlan, diskPolicy, diskRepo, diskAudit, reg>>

\* pre_mcp_tool_use_atlas_gate.py on the same payload.
ChainAtlasGate ==
    /\ pc[1] = "allowlist_done"
    /\ out' = AtlasGate(stdin, policySys)
    /\ pc' = [pc EXCEPT ![1] = "gate_done"]
    /\ UNCHANGED <<diskSession, diskPlan, diskPolicy, diskRepo, diskAudit, stdin, reg>>

\* pre_session_state_enforcement.py on the same payload.
ChainSession ==
    /\ pc[1] = "gate_done"
    /\ SessionHook(stdin)
    /\ pc' = [pc EXCEPT ![1] = "idle"]
    /\ UNCHANGED <<diskPlan, diskPolicy, diskRepo, diskAudit, reg>>

NextChain ==
    \/ ChainMcpAllowlist
    \/ ChainAtlasGate
    \/ ChainSession

SpecChain == InitChain /\ [][NextChain]_vars

(***************************************************************************)
(* Overlapping invocations of the session state hook.  Each invocation is  *)
(* a process of its own; the file system orders its system calls with the  *)
(* others'.  get_session_state is one step: the file is never removed, so  *)
(* the exists() test and the read that follows see the same file.          *)
(* set_session_state is two: open(..., "w") truncates the file, and the    *)
(* buffered write reaches it when the with-block closes it.                *)
(***************************************************************************)
SessionRaceTools == {"begin_session", "end_session", "read_file", "run_command"}

\* main() up to the decision: parse stdin and read the state file.
SRead(p) ==
    /\ pc[p] = "idle"
    /\ \E t \in SessionRaceTools :
          reg' = [reg EXCEPT ![p] = [NoReg EXCEPT !.tool = t,
                                       !.state = get_session_state(stateFile)]]
    /\ pc' = [pc EXCEPT ![p] = "s_decided"]
    /\ UNCHANGED <<diskSession, diskPlan, diskPolicy, diskRepo, diskAudit, stdin, out>>

\* set_session_state: open(STATE_FILE, "w").
SOpen(p) ==
    /\ pc[p] = "s_decided"
    /\ SessionDecision(reg[p].tool, reg[p].state).write # Missing
    /\ stateFile' = EmptyText
    /\ pc' = [pc EXCEPT ![p] = "s_opened"]
    /\ UNCHANGED <<sessionAudit, diskPlan, diskPolicy, diskRepo, diskAudit, stdin, out, reg>>

\* set_session_state: f.write(state) and the close; then print and exit.
SWrite(p) ==
    /\ pc[p] = "s_opened"
    /\ LET d == SessionDecision(reg[p].tool, reg[p].state) IN
          /\ stateFile' = d.write
          /\ out' = d.out
    /\ pc' = [pc EXCEPT ![p] = "idle"]
    /\ reg' = [reg EXCEPT ![p] = NoReg]
    /\ UNCHANGED <<sessionAudit, diskPlan, diskPolicy, diskRepo, diskAudit, stdin>>

\* The branches that do not persist a state: audit line, print, exit.
SFinish(p) ==
    /\ pc[p] = "s_decided"
    /\ LET d == SessionDecision(reg[p].tool, reg[p].state) IN
          /\ d.write = Missing
          /\ Len(sessionAudit) + Len(d.audit) <= MaxRaceAudit
          /\ sessionAudit' = sessionAudit \o d.audit
          /\ out' = d.out
    /\ pc' = [pc EXCEPT ![p] = "idle"]
    /\ reg' = [reg EXCEPT ![p] = NoReg]
    /\ UNCHANGED <<stateFile, diskPlan, diskPolicy, diskRepo, diskAudit, stdin>>

NextSessionRace == \E p \in Procs : SRead(p) \/ SOpen(p) \/ SWrite(p) \/ SFinish(p)

SpecSessionRace == Init /\ [][NextSessionRace]_vars

(***************************************************************************)
(* Overlapping invocations of the plan immutability hook.  init reads the  *)
(* stored hash, appends its audit line, and store_plan_hash then opens and *)
(* writes the hash file and the context file, one after the other.  All    *)
(* digests have the same length, so a write replaces the whole content.    *)
(***************************************************************************)
PlanRacePlans == {PlanA, PlanB}

\* main() up to the read of the stored hash, for a payload with a plan.
PRead(p) ==
    /\ pc[p] = "idle"
    /\ \E pl \in PlanRacePlans, a \in {"init", "verify"} :
          /\ reg' = [reg EXCEPT ![p] = [NoReg EXCEPT
                        !.current = compute_plan_hash(pl),
                        !.stored = get_stored_plan_hash(planHashFile),
                        !.step = 0]]
          /\ pc' = [pc EXCEPT ![p] = IF a = "init" THEN "p_init" ELSE "p_verify"]
    /\ UNCHANGED <<diskSession, diskPlan, diskPolicy, diskRepo, diskAudit, stdin, out>>

\* init: audit_log_error when a hash is already stored.
PInitLog(p) ==
    /\ pc[p] = "p_init"
    /\ LET lines == PlanInitAudit(reg[p].stored, reg[p].current) IN
          /\ Len(planAudit) + Len(lines) <= MaxRaceAudit
          /\ planAudit' = planAudit \o lines
    /\ pc' = [pc EXCEPT ![p] = "p_logged"]
    /\ UNCHANGED <<planHashFile, planContextFile, diskSession, diskPolicy, diskRepo, diskAudit, stdin, out, reg>>

\* store_plan_hash: open(PLAN_HASH_FILE, "w").
POpenHash(p) ==
    /\ pc[p] = "p_logged"
    /\ planHashFile' = EmptyText
    /\ pc' = [pc EXCEPT ![p] = "p_hash_opened"]
    /\ UNCHANGED <<planContextFile, planAudit, diskSession, diskPolicy, diskRepo, diskAudit, stdin, out, reg>>

\* store_plan_hash: f.write(plan_hash) and the close.
PWriteHash(p) ==
    /\ pc[p] = "p_hash_opened"
    /\ planHashFile' = reg[p].current
    /\ pc' = [pc EXCEPT ![p] = "p_hash_written"]
    /\ UNCHANGED <<planContextFile, planAudit, diskSession, diskPolicy, diskRepo, diskAudit, stdin, out, reg>>

\* store_plan_hash: open(PLAN_CONTEXT_FILE, "w").
POpenContext(p) ==
    /\ pc[p] = "p_hash_written"
    /\ planContextFile' = EmptyText
    /\ pc' = [pc EXCEPT ![p] = "p_ctx_opened"]
    /\ UNCHANGED <<planHashFile, planAudit, diskSession, diskPolicy, diskRepo, diskAudit, stdin, out, reg>>

\* store_plan_hash: the context is written and closed; then print and exit.
PWriteContext(p) ==
    /\ pc[p] = "p_ctx_opened"
    /\ planContextFile' = PlanContext(reg[p].current)
    /\ out' = PlanInitOut(reg[p].current, reg[p].step)
    /\ pc' = [pc EXCEPT ![p] = "idle"]
    /\ reg' = [reg EXCEPT ![p] = NoReg]
    /\ UNCHANGED <<planHashFile, planAudit, diskSession, diskPolicy, diskRepo, diskAudit, stdin>>

\* verify: audit line, print, exit.
PVerifyFinish(p) ==
    /\ pc[p] = "p_verify"
    /\ LET v == PlanVerify(reg[p].current, reg[p].stored, reg[p].step) IN
          /\ Len(planAudit) + Len(v.audit) <= MaxRaceAudit
          /\ planAudit' = planAudit \o v.audit
          /\ out' = v.out
    /\ pc' = [pc EXCEPT ![p] = "idle"]
    /\ reg' = [reg EXCEPT ![p] = NoReg]
    /\ UNCHANGED <<planHashFile, planContextFile, diskSession, diskPolicy, diskRepo, diskAudit, stdin>>

NextPlanRace ==
    \E p \in Procs :
        \/ PRead(p) \/ PInitLog(p) \/ POpenHash(p) \/ PWriteHash(p)
        \/ POpenContext(p) \/ PWriteContext(p) \/ PVerifyFinish(p)

SpecPlanRace == Init /\ [][NextPlanRace]_vars

(***************************************************************************)
(* Claims about non-overlapping invocations of the session state hook.     *)
(***************************************************************************)
\* The lifecycle a reader of the state file sees.
Lifecycle(file) == IF file = NoFile THEN "INIT" ELSE file

\* C1: every change of the persisted lifecycle is INIT->ACTIVE or
\* ACTIVE->CLOSED; it never moves backwards and never jumps INIT->CLOSED.
C1_MonotonicLifecycle ==
    [][stateFile' # stateFile =>
          \/ Lifecycle(stateFile) = "INIT" /\ Lifecycle(stateFile') = "ACTIVE"
          \/ Lifecycle(stateFile) = "ACTIVE" /\ Lifecycle(stateFile') = "CLOSED"]_vars

\* Both transitions have happened.
C1_Witness == stateFile = "CLOSED" /\ out.new_state = "CLOSED"

\* The whitelist as the hook documents it.
C2_Whitelist ==
    {"begin_session", "end_session", "list_plans", "read_plan", "lint_plan",
     "bootstrap_create_foundation_plan", "read_prompt", "read_file",
     "write_file", "read_audit_log", "replay_execution",
     "verify_workspace_integrity", "generate_attestation_bundle",
     "verify_attestation_bundle", "export_attestation_bundle"}

\* C2: the transition table.  In INIT begin_session is allowed and persists
\* ACTIVE and every other tool is rejected; in ACTIVE end_session is allowed
\* and persists CLOSED, the other whitelisted tools are allowed and change
\* nothing, the rest is rejected; a rejection never changes the lifecycle.
C2_TransitionTable ==
    [][stdin'.json # "other" =>
          LET t == IF stdin'.json = "invalid" \/ stdin'.tool_name = Missing
                   THEN "unknown" ELSE stdin'.tool_name
              allowed  == out'.status = "allowed" /\ out'.exit = 0
              rejected == out'.status = "rejected" /\ out'.exit # 0
          IN  /\ (stateFile = NoFile /\ t = "begin_session")
                    => allowed /\ stateFile' = "ACTIVE"
              /\ (stateFile = NoFile /\ t # "begin_session")
                    => rejected /\ stateFile' = stateFile
              /\ (stateFile = "ACTIVE" /\ t = "end_session")
                    => allowed /\ stateFile' = "CLOSED"
              /\ (stateFile = "ACTIVE" /\ t \in C2_Whitelist \ {"end_session"})
                    => allowed /\ stateFile' = stateFile
              /\ (stateFile = "ACTIVE" /\ t \notin C2_Whitelist)
                    => rejected /\ stateFile' = stateFile
              /\ out'.status = "rejected" => stateFile' = stateFile]_vars

\* A whitelisted tool was allowed in ACTIVE after a rejection was logged.
C2_Witness ==
    /\ stateFile = "ACTIVE"
    /\ stdin.tool_name = "read_file"
    /\ out.status = "allowed" /\ out.new_state = Missing
    /\ Len(sessionAudit) > 0

\* C3: CLOSED is terminal: from CLOSED every invocation, whatever the tool
\* name, is rejected and the lifecycle stays CLOSED.
C3_ClosedIsTerminal ==
    [][stateFile = "CLOSED" =>
          /\ stateFile' = "CLOSED"
          /\ out'.exit # 0
          /\ stdin'.json # "other" => out'.status = "rejected"]_vars

\* begin_session was tried on a closed session and rejected.
C3_Witness ==
    /\ stateFile = "CLOSED"
    /\ stdin.tool_name = "begin_session"
    /\ out.status = "rejected" /\ out.state = "CLOSED"

(***************************************************************************)
(* Claims about non-overlapping invocations of the plan immutability hook. *)
(***************************************************************************)
HasHash(file) == file # NoFile /\ file # ""

\* C5: the stored plan hash is write-once: an existing stored hash is replaced
\* only by an init invocation, and that invocation appends an overwrite record
\* naming the old and the new hash to the plan audit log.
C5_WriteOnceOrAudited ==
    [][(HasHash(planHashFile) /\ planHashFile' # planHashFile) =>
          /\ stdin'.action = "init"
          /\ planAudit' = Append(planAudit,
                 [kind |-> "overwrite", a |-> planHashFile, b |-> planHashFile',
                  step |-> NoStep])]_vars

\* A stored hash has been replaced by a different one.
C5_Witness ==
    /\ HasHash(planHashFile)
    /\ \E i \in 1..Len(planAudit) :
          /\ planAudit[i].kind = "overwrite"
          /\ planAudit[i].a # planAudit[i].b
          /\ planAudit[i].b = planHashFile

\* C6: init stores the hash of its plan; a verify with plan Q is allowed
\* exactly when the hash of Q equals the stored hash, is rejected before any
\* init, and on a differing hash is rejected with the reason "Plan has been
\* modified since execution started" and both hashes.
C6_VerifyAgainstStored ==
    [][(stdin'.json = "object" /\ stdin'.plan.kind # "missing") =>
          LET q == compute_plan_hash(stdin'.plan)
              truthy == /\ stdin'.plan.kind = "dict" => stdin'.plan.items # <<>>
                        /\ stdin'.plan.kind = "str" => stdin'.plan.text # ""
          IN  /\ (stdin'.action = "init" /\ truthy) => planHashFile' = q
              /\ stdin'.action \in {"verify", Missing} =>
                    /\ planHashFile' = planHashFile
                    /\ out'.status = "allowed" <=> planHashFile = q
                    /\ out'.status = "allowed" => out'.exit = 0
                    /\ planHashFile = NoFile => out'.exit # 0
                    /\ (planHashFile = NoFile /\ truthy) => out'.status = "rejected"
                    /\ (truthy /\ planHashFile # NoFile /\ planHashFile # q) =>
                          /\ out'.status = "rejected"
                          /\ out'.reason = "Plan has been modified since execution started"
                          /\ out'.expected_hash = planHashFile
                          /\ out'.current_hash = q]_vars

\* A verify was rejected for a modified plan, and the log says so.
C6_Witness ==
    /\ out.reason = "Plan has been modified since execution started"
    /\ out.expected_hash = planHashFile
    /\ out.current_hash # planHashFile
    /\ \E i \in 1..Len(planAudit) : planAudit[i].kind = "mismatch"

\* A verify was allowed for the plan with its keys in the other order.
C6_WitnessAllowed ==
    /\ out.status = "allowed" /\ out.action = Missing
    /\ stdin.plan = PlanARev
    /\ planHashFile = compute_plan_hash(PlanA)

(***************************************************************************)
(* Claims about overlapping invocations.                                   *)
(***************************************************************************)
\* C7: under any interleaving of overlapping invocations the persisted
\* lifecycle never moves backwards: no write puts ACTIVE in the place of
\* CLOSED, and none puts INIT (or no file) in the place of ACTIVE.
C7_NoBackwardUnderRace ==
    [][/\ stateFile = "CLOSED" => stateFile' # "ACTIVE"
       /\ stateFile = "ACTIVE" => stateFile' \notin {NoFile, "INIT"}]_vars

\* C8: when overlapping inits replace one stored hash by a different one, the
\* plan audit log holds an overwrite record for that replacement.
C8_RaceIsAudited ==
    [][(HasHash(planHashFile) /\ HasHash(planHashFile')
            /\ planHashFile' # planHashFile) =>
          \E i \in 1..Len(planAudit') :
              /\ planAudit'[i].kind = "overwrite"
              /\ planAudit'[i].a = planHashFile
              /\ planAudit'[i].b = planHashFile']_vars

\* C9: writes are atomic for readers: an invocation that reads the state file
\* while another one writes it gets the previous or the new content, never an
\* empty or partial one.
C9_ReadsSeeWholeContent ==
    \A p \in Procs :
        pc[p] \in {"s_decided", "s_opened"} =>
            reg[p].state \in {"INIT", "ACTIVE", "CLOSED"}

\* Every policy file a hook can resolve to sets execution_profile to locked.
ProfileLocked ==
    /\ policySys.kind = "object"
    /\ policySys.execution_profile = "locked"
    /\ policyLocal \in {NoPolicyFile, PolicyObject("locked", {})}

\* The modelled hooks bound to pre_mcp_tool_use, pre_run_command and
\* pre_filesystem_write.
MutatingPointHooks == {"mcp_allowlist", "atlas_gate", "kill_switch", "blocklist", "fs_write"}

\* C4: while the policy's execution_profile is locked, every hook run at a
\* mutating or executing interception point ends in a block, exit code 2,
\* whatever the payload.
C4_LockedBlocksEverything ==
    (ProfileLocked /\ out.hook \in MutatingPointHooks) => out.exit = 2

\* The hooks that decide (mandatory) and the one that only annotates (advisory).
MandatoryHooks == {"mcp_allowlist", "atlas_gate", "kill_switch", "blocklist", "fs_write"}
AdvisoryHooks == {"intent"}

\* C10: when stdin is not valid JSON, a mandatory hook blocks with exit code 2
\* and an advisory hook exits 0; no mandatory hook allows malformed input.
C10_MalformedInput ==
    stdin.json = "invalid" =>
        /\ out.hook \in MandatoryHooks => out.exit = 2
        /\ out.hook \in AdvisoryHooks => out.exit = 0

\* text.startswith(prefix)
StartsWith(text, prefix) ==
    Len(text) >= Len(prefix) /\ SubSeq(text, 1, Len(prefix)) = prefix

\* C11: a hook ends with exit code 0, 1 or 2, and when it ends with 2 the
\* error stream it wrote starts with "BLOCKED:".
C11_ExitCodesAndBlockedLine ==
    out.hook # "none" =>
        /\ out.exit \in {0, 1, 2}
        /\ out.exit = 2 => (out.stderr # Missing /\ StartsWith(out.stderr, "BLOCKED:"))

\* The kill switch has blocked a command in the execution_only profile.
C11_Witness ==
    /\ out.hook = "kill_switch"
    /\ out.exit = 2
    /\ out.echo = "ls"

\* C12: a hook that rejects a call signals it with exit code 2; exit code 1
\* never accompanies a rejection.
C12_RejectionExitsTwo ==
    out.status = "rejected" => out.exit = 2

\* The policy file the kill switch reads sets execution_profile to execution_only.
KillSwitchExecutionOnly ==
    policySys.kind = "object" /\ policySys.execution_profile = "execution_only"

\* C13: in the execution_only profile the kill switch blocks every payload
\* object with exit code 2, whatever its command (empty and missing included);
\* stderr begins "BLOCKED: Direct command execution is disabled." and the
\* requested command, stripped, is echoed.
C13_KillSwitchExecutionOnly ==
    (out.hook = "kill_switch" /\ stdin.json = "object" /\ KillSwitchExecutionOnly) =>
        /\ out.exit = 2
        /\ StartsWith(out.stderr, "BLOCKED: Direct command execution is disabled.")
        /\ out.echo = IF stdin.ti_command \in {Missing, Null, ""} THEN ""
                      ELSE Strip(stdin.ti_command)

\* The kill switch has blocked a payload that carries no command at all.
C13_Witness ==
    /\ out.hook = "kill_switch"
    /\ KillSwitchExecutionOnly
    /\ stdin.json = "object"
    /\ stdin.ti_command = Missing
    /\ out.exit = 2

\* re.search(pattern, command) for the patterns and commands of the model.
RegexSearch(pattern, command) ==
    pattern = "rm\\s+-rf" /\ command = "rm -rf /"

\* The policy file the blocklist hook resolves sets the standard profile.
BlocklistPolicy == resolve_policy_path(policySys, policyLocal)
BlocklistStandard ==
    /\ BlocklistPolicy.kind = "object"
    /\ BlocklistPolicy.execution_profile \in {Missing, "standard"}

\* C14: in the standard profile the pre_run_command blocklist blocks a payload
\* whose tool_info.command is c exactly when c matches a pattern of
\* policy.block_commands_regex.
C14_BlockedIffPatternMatches ==
    (out.hook = "blocklist" /\ stdin.json = "object" /\ BlocklistStandard
        /\ stdin.ti_command # Missing) =>
        (out.exit = 2 <=>
            \E r \in BlocklistPolicy.block_commands_regex :
                RegexSearch(r, stdin.ti_command))

\* The call order the markers of the conversation context stand for.
MarkersInOrder ==
    LET tool == Strip(ToolNameOf(stdin)) IN
    \/ tool = "mcp_atlas-gate-mcp_begin_session"
    \/ /\ "ATLAS_SESSION_OK" \in stdin.context
       /\ tool = "mcp_atlas-gate-mcp_write_file" =>
            /\ "ATLAS_PROMPT_UNLOCKED" \in stdin.context
            /\ stdin.ti_plan \notin {Missing, Null, "", "  "}

\* C15: the MCP allowlist hook allows a tool other than begin_session only
\* when the context holds ATLAS_SESSION_OK, and write_file only when it also
\* holds ATLAS_PROMPT_UNLOCKED and the plan field is a non-blank string; a
\* call that violates this is blocked with exit code 2.
C15_MarkersEnforceOrder ==
    (out.hook = "mcp_allowlist" /\ stdin.json = "object") =>
        /\ out.exit = 0 => MarkersInOrder
        /\ ~MarkersInOrder => out.exit = 2

\* write_file after begin_session but before the prompt was read is blocked.
C15_Witness ==
    /\ out.hook = "mcp_allowlist"
    /\ Strip(ToolNameOf(stdin)) = "mcp_atlas-gate-mcp_write_file"
    /\ stdin.context = {"ATLAS_SESSION_OK"}
    /\ stdin.ti_plan = "b3:9f2c"
    /\ out.exit = 2

\* Tool names of the payloads that neither carry the prefix
\* mcp_atlas-gate-mcp_ nor are the bare name of a gateway tool.
ForeignTools == {"run_command", "atlas_gate.delete"}

\* C16: the MCP allowlist hook blocks every tool whose name neither carries
\* the gateway prefix nor is a known bare name, whatever
\* policy.mcp_tool_allowlist holds (empty list and missing policy included).
C16_PrefixRequired ==
    (out.hook = "mcp_allowlist" /\ stdin.json = "object"
        /\ Strip(ToolNameOf(stdin)) \in ForeignTools) =>
        out.exit = 2

\* The policy file the prompt gate resolves defines both tokens.
TokensConfigured ==
    {"audit_ok", "ship_ok"} \subseteq resolve_policy_path(policySys, policyLocal).tokens

\* C17: with audit_ok and ship_ok defined in policy.tokens, the user-prompt
\* gate blocks a prompt that holds a mutation verb but not the audit_ok token,
\* and one that holds "proceed" but not the ship_ok token.
C17_TokensRequired ==
    (out.hook = "prompt_gate" /\ stdin.json = "object" /\ TokensConfigured
        /\ stdin.ti_prompt.mutation) =>
        /\ "audit_ok" \notin stdin.ti_prompt.words => out.exit = 2
        /\ ("proceed" \in stdin.ti_prompt.words /\ "ship_ok" \notin stdin.ti_prompt.words)
              => out.exit = 2

\* Edit i of the payload removes logic: old executable lines, fewer new ones,
\* new content not empty.
RemovesLogic(e) ==
    /\ count_exec(e.old_string) > 0
    /\ e.new_string.lines # <<>>
    /\ count_exec(e.new_string) < count_exec(e.old_string)

\* C18: the code policy hook blocks, with exit code 2, every payload that
\* holds an edit removing logic, whatever the edit's path.
C18_LogicPreservation ==
    (out.hook = "code_policy" /\ out.status # "traceback"
        /\ \E i \in 1..Len(stdin.ti_edits) : RemovesLogic(stdin.ti_edits[i])) =>
        out.exit = 2

\* The path, as written, contains ".." or "~".
ContainsDotDot(path) == \E i \in 1..Len(path.parts) : path.parts[i] = ".."
ContainsTilde(path) == \E i \in 1..Len(path.parts) : path.parts[i] \in {"~", "~backup"}

\* A path the filesystem boundary rejects in every profile.
BoundaryViolation(path) ==
    \/ ContainsDotDot(path)
    \/ path.abs
    \/ ContainsTilde(path)
    \/ is_forbidden_path(path)
    \/ is_forbidden_extension(path)

\* The policy file the boundary hook resolves sets execution_only.
BoundaryExecutionOnly ==
    LET file == resolve_policy_path(policySys, policyLocal) IN
    file.kind = "object" /\ file.execution_profile = "execution_only"

\* C19: the filesystem boundary hook blocks every edit set holding a path that
\* contains "..", is absolute, contains "~", lies under a forbidden root or
\* has a forbidden extension; in the execution_only profile it blocks every
\* edit set holding an edit with a non-empty path.
C19_FilesystemBoundary ==
    (out.hook = "atlas_enforcement" /\ stdin.json = "object"
        /\ out.status # "traceback") =>
        /\ (\E i \in 1..Len(stdin.ti_edits) :
                /\ stdin.ti_edits[i].path # EmptyPath
                /\ BoundaryViolation(stdin.ti_edits[i].path)) => out.exit = 2
        /\ (BoundaryExecutionOnly
            /\ \E i \in 1..Len(stdin.ti_edits) : stdin.ti_edits[i].path # EmptyPath)
                => out.exit = 2

\* ~ expanded to the home directory, then the path resolved from the work tree.
Located(path) ==
    IF ~path.abs /\ path.parts # <<>> /\ path.parts[1] = "~"
    THEN Normalize(HOME, Tail(path.parts))
    ELSE Resolve(path)

\* The gateway's own installation directories.
InstallDirs ==
    {<<"usr", "local", "share", "windsurf-hooks">>,
     <<"etc", "windsurf", "policy">>,
     HOME \o <<".local", "share", "windsurf-hooks">>}

InsideInstallDir(path) ==
    \E dir \in InstallDirs :
        /\ Len(Located(path)) > Len(dir)
        /\ SubSeq(Located(path), 1, Len(dir)) = dir

\* C20: a payload whose tool is not the MCP write tool and that holds an edit
\* inside one of the gateway's installation directories is blocked with exit
\* code 2.
C20_SelfProtection ==
    (out.hook = "enforcement_protection" /\ stdin.json = "object"
        /\ Strip(ToolNameOf(stdin)) # "atlas_gate.write"
        /\ \E i \in 1..Len(stdin.ti_edits) : InsideInstallDir(stdin.ti_edits[i].path)) =>
        out.exit = 2

(***************************************************************************)
(* Claims about the reasoning detector and the write_file guardrail.       *)
(***************************************************************************)
\* A string holding a reasoning marker, at any depth of a JSON value.
RECURSIVE HoldsMarker(_)
HoldsMarker(value) ==
    \/ value.kind = "str" /\ value.hit
    \/ \E i \in 1..Len(value.items) : HoldsMarker(value.items[i].v)

\* C21: the reasoning detector rejects a call exactly when some string of
\* the arguments object, at any nesting depth, holds a reasoning marker.
C21_MarkerAtAnyDepthRejected ==
    (out.hook = "reasoning" /\ stdin.json = "object"
        /\ stdin.arguments.kind = "dict")
    => (out.status = "rejected" <=> HoldsMarker(stdin.arguments))

\* C22: the write_file guardrail allows a write only when the plan hash it
\* was given is non-empty and equal to the hash the plan hook has stored; a
\* write before any init, and a write with another hash than the stored one,
\* is not allowed.
C22_WriteNeedsStoredHash ==
    (out.hook = "write_file" /\ out.status = "allowed")
    => /\ ~Falsy(stdin.plan_hash)
       /\ planHashFile # NoFile
       /\ stdin.plan_hash = planHashFile

\* A second init has replaced the stored hash, and a write that carries the
\* hash of the first init is rejected for the mismatch.
C22_Witness ==
    /\ out.hook = "write_file"
    /\ out.status = "rejected"
    /\ out.errors = <<"plan_hash mismatch">>
    /\ stdin.plan_hash = compute_plan_hash(PlanA)
    /\ planHashFile = compute_plan_hash(PlanB)
    /\ \E i \in 1..Len(planAudit) :
          planAudit[i] = OverwriteLine(compute_plan_hash(PlanA), compute_plan_hash(PlanB))

(***************************************************************************)
(* Claims about the policy document.                                       *)
(***************************************************************************)
\* The policy exists only at the repo-local fallback path.
FallbackOnly == policySys = NoPolicyFile /\ policyLocal.kind = "object"

\* C23: a policy present only at the fallback path is the one every hook
\* decides on: with execution_only or locked there the shell kill switch
\* blocks, and with locked there the ATLAS primary gate blocks.
C23_FallbackPolicyEnforced ==
    (FallbackOnly /\ stdin.json = "object")
    => /\ (out.hook = "kill_switch"
            /\ policyLocal.execution_profile \in {"execution_only", "locked"})
           => out.exit = 2
       /\ (out.hook = "atlas_gate" /\ policyLocal.execution_profile = "locked")
           => StartsWith(out.stderr, "BLOCKED: System is in LOCKED mode")

\* The modelled hooks that parse the policy document.
PolicyReaders ==
    {"mcp_allowlist", "atlas_gate", "kill_switch", "blocklist", "code_policy",
     "atlas_enforcement"}

\* C24: a policy file that is not valid JSON is taken as an empty policy: a
\* hook that reads it reaches its allow or block decision and does not end in
\* an unhandled internal error.
C24_MalformedPolicyIsEmpty ==
    (policySys = MalformedPolicyFile /\ stdin.json = "object"
        /\ out.hook \in PolicyReaders)
    => out.status # "traceback"

(***************************************************************************)
(* Further claims about the plan hook.                                     *)
(***************************************************************************)
\* The invocation that ends in the next state is a verify of the plan hook.
VerifyStep ==
    /\ out'.hook = "plan"
    /\ stdin'.json # "other"
    /\ PlanTruthy(PlanOf(stdin'))
    /\ ActionOf(stdin') = "verify"

\* C25: a verify leaves the stored plan hash and the plan context as they
\* are, and a verify that follows a verify of the same payload, with no init
\* in between, prints the same status and the same hashes.
C25_VerifyIdempotent ==
    [][VerifyStep =>
          /\ planHashFile' = planHashFile
          /\ planContextFile' = planContextFile
          /\ (out.hook = "plan" /\ stdin' = stdin) => out' = out]_vars

\* Two verifies in a row have been rejected for the same mismatch with the
\* stored hash, which is still in place.
C25_Witness ==
    /\ out.hook = "plan"
    /\ out.status = "rejected"
    /\ out.expected_hash = planHashFile
    /\ out.current_hash = compute_plan_hash(PlanOf(stdin))
    /\ Len(planAudit) >= 2
    /\ planAudit[Len(planAudit)].kind = "mismatch"
    /\ planAudit[Len(planAudit) - 1] = planAudit[Len(planAudit)]

(***************************************************************************)
(* Claims about the audit logs.                                            *)
(***************************************************************************)
IsPrefix(earlier, later) ==
    Len(earlier) <= Len(later) /\ SubSeq(later, 1, Len(earlier)) = earlier

\* C26: the four audit logs are append-only: over every hook invocation the
\* earlier content of each log is a prefix of its later content.
C26_AuditAppendOnly ==
    [][/\ IsPrefix(sessionAudit, sessionAudit')
       /\ IsPrefix(planAudit, planAudit')
       /\ IsPrefix(reasoningAudit, reasoningAudit')
       /\ IsPrefix(writeAudit, writeAudit')]_vars

\* The write_file log holds a rejection followed by a later record, while
\* the session log holds a record of its own.
C26_Witness ==
    /\ Len(writeAudit) = 2
    /\ writeAudit[1].kind = "REJECTED"
    /\ writeAudit[2].kind = "ALLOWED"
    /\ Len(sessionAudit) = 1

(***************************************************************************)
(* Claims about the post_write hooks.                                      *)
(***************************************************************************)
\* tests/test_app.py exists and holds a mock pattern.
TestHoldsMock == repo.test.exists /\ "cov_mock" \in repo.test.hits

\* The payload edits src/app.py, whose counterpart the test file is, or the
\* test file itself.
EditsSourceOrTest ==
    \E i \in 1..Len(stdin.ti_edits) :
        stdin.ti_edits[i].path \in {RelPath(<<"src", "app.py">>),
                                    RelPath(<<"tests", "test_app.py">>)}

\* C27: when a test file holds a mock pattern, the test-authenticity check
\* blocks with exit code 2, both when the edit touches the source file the
\* test belongs to and when it touches the test file itself.
C27_MockTestsBlocked ==
    (out.hook = "coverage" /\ stdin.json = "object" /\ TestHoldsMock
        /\ EditsSourceOrTest)
    => out.exit = 2

(***************************************************************************)
(* Claims about failed writes.                                             *)
(***************************************************************************)
\* C28: whenever an invocation of the session state hook reports status
\* allowed with a new_state, the lifecycle stored after the invocation is
\* that state, also when the write of the state file fails.
C28_ReportedStateIsPersisted ==
    (out.hook = "session" /\ out.status = "allowed" /\ out.new_state # Missing)
    => Lifecycle(stateFile) = out.new_state

\* C29: in every state another invocation can observe, between the steps of
\* an init included, a stored plan hash is the hash the stored plan context
\* carries.
C29_HashAndContextAgree ==
    HasHash(planHashFile) => planContextFile = PlanContext(planHashFile)

(***************************************************************************)
(* Claims about the hooks of one event taken together.                     *)
(***************************************************************************)
\* The session-initialising call, as the allowlist hook knows it.
BeginSessionCall(p) ==
    p.json = "object" /\ ToolNameOf(p) = "mcp_atlas-gate-mcp_begin_session"

\* C30: in a fresh session under the standard profile, the call of
\* mcp_atlas-gate-mcp_begin_session is allowed by the allowlist hook, by the
\* primary gate and by the session state hook when they run one after
\* another on the same payload, and the lifecycle is ACTIVE afterwards.
C30_BeginSessionPassesAllHooks ==
    [][(BeginSessionCall(stdin') /\ Lifecycle(stateFile) = "INIT") =>
          /\ out'.hook \in {"mcp_allowlist", "atlas_gate", "session"} => out'.exit = 0
          /\ out'.hook = "session" => /\ out'.status = "allowed"
                                      /\ Lifecycle(stateFile') = "ACTIVE"]_vars

====
